---- MODULE Spec2Model ----
(***************************************************************************)
(* LCache: single-flight coordinator (singleflight/singleflight.go), LRU   *)
(* store (store/lru.go), Group layer (group.go, server.go) and the         *)
(* consistent-hash ring (consistenthash.Map).                              *)
(*                                                                         *)
(* The specifications of this module, one per subsystem and use:           *)
(*   SpecSF    concurrent callers of singleflight.Group.Do                 *)
(*   SpecSFLive the same, where every caller goes on and fn returns        *)
(*   SpecLRU   one lruCache with its clients, sweeper and async deletes    *)
(*   SpecGroup a small cluster of nodes, each running one Group            *)
(*   SpecLRUOps the same lruCache with its methods called one at a time    *)
(*   SpecLRU2  one bucket of the two-level store lru2Store                 *)
(*   SpecTable one slot table of that store, with put and get              *)
(*   SpecLRULocks the same, with the methods that only read                *)
(*   SpecRing  one consistenthash.Map, its callers and its balancer        *)
(*   SpecRegistry the registry of groups and the goroutines using it       *)
(* Each specification drives its own variables and leaves the others at    *)
(* their initial value.                                                    *)
(***************************************************************************)
EXTENDS Integers, Sequences, FiniteSets, TLC

(***************************************************************************)
(* State                                                                   *)
(***************************************************************************)

\* singleflight.Group and the callers of Do.
VARIABLES
  sfPc,       \* caller -> position in Do: idle, store, fn, delete, wait, returned
  sfKey,      \* caller -> the key it passed to Do
  sfM,        \* Group.m: key -> the call record stored (named by its creator) or NoCall
  sfDone,     \* call record (by creator) -> its WaitGroup has been released
  sfRes,      \* call record (by creator) -> c.val, c.err
  sfWaitOn,   \* caller -> the existing record it waits on
  sfRet,      \* caller -> what Do returned to it
  sfFnCalls,  \* history: key -> number of times fn was invoked
  sfFnEnded,  \* history: key -> number of fn executions that completed
  sfLate      \* history: caller -> it entered Do after an fn for its key had completed

sfVars == <<sfPc, sfKey, sfM, sfDone, sfRes, sfWaitOn, sfRet, sfFnCalls, sfFnEnded, sfLate>>

\* store.lruCache, its clients and its clock.
VARIABLES
  lNext,        \* element -> e.next (Root's entry is l.root.next)
  lPrev,        \* element -> e.prev
  lOwner,       \* element -> e.list == c.list
  lLen,         \* c.list.len
  eKey,         \* element -> entry.key
  eVal,         \* element -> entry.value
  items,        \* c.items: key -> element or Nil
  expires,      \* c.expires: key -> deadline or NoExp
  usedBytes,    \* c.usedBytes
  maxBytes,     \* c.maxBytes
  lruNow,       \* time.Now()
  lruGet,       \* slot -> the Get that has left its read-locked section
  lruAsyncDel,  \* key -> number of pending go c.Delete(key)
  lruOrder,     \* history: the live entries, least recently accessed first
  lruCapLog     \* history: the capacity evictions of the last operation

\* The same store as one caller at a time sees it: what the last operation
\* was and returned, the onEvicted calls it made, Close and the cleanup ticker.
VARIABLES
  lruLast,      \* history: the last operation, its arguments and its result
  lruFired,     \* history: the onEvicted calls of the last operation, in order
  lruClosed,    \* closeCh: open, closed, or panic (close of a closed channel)
  lruSwept      \* the time of the last cleanup tick that cleanupLoop has served

lruOpVars == <<lruLast, lruFired, lruClosed, lruSwept>>

\* store.lru2Store with one bucket, its callers and its clock.
VARIABLES
  caches,       \* level -> the slot table of the level, most recently used first
  l2Now,        \* Now()
  l2Last,       \* history: the last operation, its key and its result
  l2Fired,      \* history: the onEvicted calls of the last operation, in order
  l2Scen        \* history: how far the run so far follows the promotion scenario

lru2Vars == <<caches, l2Now, l2Last, l2Fired, l2Scen>>

lruVars == <<lNext, lPrev, lOwner, lLen, eKey, eVal, items, expires, usedBytes,
             maxBytes, lruNow, lruGet, lruAsyncDel, lruOrder, lruCapLog>>

\* One Group per node, its callers, its propagation goroutines and the RPCs
\* between the nodes.
VARIABLES
  gClosed,      \* node -> g.closed
  gPeers,       \* node -> g.peers != nil
  mainCache,    \* node -> g.mainCache: key -> value or NoValue
  cacheCloses,  \* node -> number of g.mainCache.Close() calls made
  groups,       \* node -> the registry of the node maps the group's name to g
  stats,        \* node -> g.stats
  loaderM,      \* node -> g.loader.m: key -> call record (by creator) or NoCall
  calls,        \* call record (by creator) -> released, c.val, c.err
  tasks,        \* id -> the Get, Set, Delete or Close running on a node
  syncs,        \* the go g.syncToPeers(...) not yet run
  rpcs,         \* the peer.Set / peer.Delete requests on their way to a server
  peerCalls     \* history: every peer.Set / peer.Delete call made

grpVars == <<gClosed, gPeers, mainCache, cacheCloses, groups, stats, loaderM,
             calls, tasks, syncs, rpcs, peerCalls>>

\* consistenthash.Map, its callers and its balancer goroutine.
VARIABLES
  keys,          \* m.keys: the positions on the ring
  hashMap,       \* m.hashMap: position -> real node, NoNode when it has no entry
  nodeReplicas,  \* m.nodeReplicas: node -> replicas, 0 when it has no entry
  nodeCounts,    \* m.nodeCounts: node -> requests, NoCount when it has no entry
  totalRequests, \* m.totalRequests
  mu,            \* m.mu: the holder of the write lock and the holders of read locks
  ringGet,       \* caller -> the Get it is in: key, node found, counter read
  balPc,         \* the balancer goroutine: idle, lock, held or blocked
  ringClosed,    \* the owner of the ring has shut down
  ringCalls,     \* history: the number of calls made by the callers
  ringMemo,      \* history: key -> the Gets of the key since the ring last changed
  ringLast       \* history: the last step, its arguments and its result

ringVars == <<keys, hashMap, nodeReplicas, nodeCounts, totalRequests, mu, ringGet,
              balPc, ringClosed, ringCalls, ringMemo, ringLast>>

\* The registry of groups of one process (the package variables groups and
\* groupsMu of group.go), the groups created and the goroutines using them.
VARIABLES
  regGroups,     \* groups: name -> the group bound to it, NoGroup when unbound
  regName,       \* group -> g.name, "" for a group not created yet
  regClosed,     \* group -> g.closed
  regCacheClosed,\* group -> g.mainCache.Close() has been called
  regMu,         \* groupsMu: the holder of the write lock, NoHolder when free
  regPc          \* goroutine -> the call it is in, and what its last call returned

regVars == <<regGroups, regName, regClosed, regCacheClosed, regMu, regPc>>

\* One slot table of the two-level store (the type cache), used on its own.
VARIABLES
  tab,           \* the slots in recency order, head first
  tabLast,       \* history: the last call, its key and the status it returned
  tabFired,      \* history: the keys onEvicted was called with by the last call
  tabOrder       \* history: the keys put or found so far, last used first

tabVars == <<tab, tabLast, tabFired, tabOrder>>

vars == <<sfVars, lruVars, lruOpVars, lru2Vars, grpVars, ringVars, regVars, tabVars>>

\* What the actions of one subsystem leave alone: the other subsystems.
SFFrame == UNCHANGED <<lruVars, lruOpVars, lru2Vars, grpVars, ringVars, regVars, tabVars>>
LRUFrame == UNCHANGED <<sfVars, lruOpVars, lru2Vars, grpVars, ringVars, regVars, tabVars>>
LRUOpFrame == UNCHANGED <<sfVars, lru2Vars, grpVars, ringVars, regVars, tabVars>>
LRU2Frame == UNCHANGED <<sfVars, lruVars, lruOpVars, grpVars, ringVars, regVars, tabVars>>
GroupFrame == UNCHANGED <<sfVars, lruVars, lruOpVars, lru2Vars, ringVars, regVars, tabVars>>
RingFrame == UNCHANGED <<sfVars, lruVars, lruOpVars, lru2Vars, grpVars, regVars, tabVars>>
RegFrame == UNCHANGED <<sfVars, lruVars, lruOpVars, lru2Vars, grpVars, ringVars, tabVars>>
TabFrame == UNCHANGED <<sfVars, lruVars, lruOpVars, lru2Vars, grpVars, ringVars, regVars>>

(***************************************************************************)
(* Part 1.  singleflight.Group.Do                                          *)
(***************************************************************************)

\* Number of concurrent callers of Do (each caller is one call of Do).
NumCallers == 3

Callers == 1..NumCallers

\* Keys passed to Do.
SFKeys == {"k1", "k2"}

\* What fn may return: (interface{}, error).
FnResults == { [val |-> "v1", err |-> "nil"],
               [val |-> "v2", err |-> "nil"],
               [val |-> "",   err |-> "boom"] }

\* No record in the sync.Map / no call / nothing returned yet.
NoCall == 0
NoResult == [val |-> "?", err |-> "?"]

SFInit ==
  /\ sfPc = [p \in Callers |-> "idle"]
  /\ sfKey = [p \in Callers |-> "k1"]
  /\ sfM = [k \in SFKeys |-> NoCall]
  /\ sfDone = [p \in Callers |-> FALSE]
  /\ sfRes = [p \in Callers |-> NoResult]
  /\ sfWaitOn = [p \in Callers |-> NoCall]
  /\ sfRet = [p \in Callers |-> NoResult]
  /\ sfFnCalls = [k \in SFKeys |-> 0]
  /\ sfFnEnded = [k \in SFKeys |-> 0]
  /\ sfLate = [p \in Callers |-> FALSE]

\* Do, lines 22-26 (first half): g.m.Load(key).  On a hit the caller will wait
\* on the existing record; on a miss it goes on to create its own.
SFLoad(p, k) ==
  /\ sfPc[p] = "idle"
  /\ sfKey' = [sfKey EXCEPT ![p] = k]
  /\ sfLate' = [sfLate EXCEPT ![p] = sfFnEnded[k] > 0]
  /\ IF sfM[k] # NoCall
       THEN /\ sfWaitOn' = [sfWaitOn EXCEPT ![p] = sfM[k]]
            /\ sfPc' = [sfPc EXCEPT ![p] = "wait"]
       ELSE /\ sfPc' = [sfPc EXCEPT ![p] = "store"]
            /\ UNCHANGED sfWaitOn
  /\ UNCHANGED <<sfM, sfDone, sfRes, sfRet, sfFnCalls, sfFnEnded>>
  /\ SFFrame

\* Do, lines 29-34: c := &call{}; c.wg.Add(1); g.m.Store(key, c); then fn is
\* called.  The Store overwrites whatever record is in the map.
SFStore(p) ==
  /\ sfPc[p] = "store"
  /\ sfM' = [sfM EXCEPT ![sfKey[p]] = p]
  /\ sfDone' = [sfDone EXCEPT ![p] = FALSE]
  /\ sfFnCalls' = [sfFnCalls EXCEPT ![sfKey[p]] = @ + 1]
  /\ sfPc' = [sfPc EXCEPT ![p] = "fn"]
  /\ UNCHANGED <<sfKey, sfRes, sfWaitOn, sfRet, sfFnEnded, sfLate>>
  /\ SFFrame

\* A variant of the return of fn that stores the result and does not release
\* the WaitGroup.
SFFnReturnNoDone(p, r) ==
  /\ sfPc[p] = "fn"
  /\ sfRes' = [sfRes EXCEPT ![p] = r]
  /\ sfFnEnded' = [sfFnEnded EXCEPT ![sfKey[p]] = @ + 1]
  /\ sfPc' = [sfPc EXCEPT ![p] = "delete"]
  /\ UNCHANGED <<sfKey, sfM, sfDone, sfWaitOn, sfRet, sfFnCalls, sfLate>>
  /\ SFFrame

\* Do, lines 34-35: fn returns, c.val, c.err are set, c.wg.Done().
SFFnReturn(p, r) ==
  /\ sfPc[p] = "fn"
  /\ sfRes' = [sfRes EXCEPT ![p] = r]
  /\ sfDone' = [sfDone EXCEPT ![p] = TRUE]
  /\ sfFnEnded' = [sfFnEnded EXCEPT ![sfKey[p]] = @ + 1]
  /\ sfPc' = [sfPc EXCEPT ![p] = "delete"]
  /\ UNCHANGED <<sfKey, sfM, sfWaitOn, sfRet, sfFnCalls, sfLate>>
  /\ SFFrame

\* A variant of the end of Do that returns and leaves the record in the map.
SFDeleteKeep(p) ==
  /\ sfPc[p] = "delete"
  /\ sfRet' = [sfRet EXCEPT ![p] = sfRes[p]]
  /\ sfPc' = [sfPc EXCEPT ![p] = "returned"]
  /\ UNCHANGED <<sfKey, sfM, sfDone, sfRes, sfWaitOn, sfFnCalls, sfFnEnded, sfLate>>
  /\ SFFrame

\* Do, lines 38-40: g.m.Delete(key) removes whatever record the key has, then
\* the executing caller returns c.val, c.err.
SFDelete(p) ==
  /\ sfPc[p] = "delete"
  /\ sfM' = [sfM EXCEPT ![sfKey[p]] = NoCall]
  /\ sfRet' = [sfRet EXCEPT ![p] = sfRes[p]]
  /\ sfPc' = [sfPc EXCEPT ![p] = "returned"]
  /\ UNCHANGED <<sfKey, sfDone, sfRes, sfWaitOn, sfFnCalls, sfFnEnded, sfLate>>
  /\ SFFrame

\* Do, lines 24-25: c.wg.Wait() returns once the record's WaitGroup is
\* released; the waiter returns the record's c.val, c.err.
SFWaitReturn(p) ==
  /\ sfPc[p] = "wait"
  /\ sfDone[sfWaitOn[p]]
  /\ sfRet' = [sfRet EXCEPT ![p] = sfRes[sfWaitOn[p]]]
  /\ sfPc' = [sfPc EXCEPT ![p] = "returned"]
  /\ UNCHANGED <<sfKey, sfM, sfDone, sfRes, sfWaitOn, sfFnCalls, sfFnEnded, sfLate>>
  /\ SFFrame

SFNext ==
  \/ \E p \in Callers, k \in SFKeys : SFLoad(p, k)
  \/ \E p \in Callers : SFStore(p)
  \/ \E p \in Callers, r \in FnResults : SFFnReturn(p, r)
  \/ \E p \in Callers : SFDelete(p)
  \/ \E p \in Callers : SFWaitReturn(p)

\* Callers of key k that have entered Do.
SFCallersOf(k) == {p \in Callers : sfPc[p] # "idle" /\ sfKey[p] = k}

\* Callers currently executing fn for key k.
SFExecuting(k) == {p \in Callers : sfPc[p] = "fn" /\ sfKey[p] = k}

\* C1: N concurrent Do(key, fn) calls with the same key that all started
\* before fn completed invoke fn exactly once, never have two executions of fn
\* for the key in progress, and all return the same (value, error).
C1_Coalescence ==
  \A k \in SFKeys :
    /\ Cardinality(SFExecuting(k)) <= 1
    /\ (\A p \in SFCallersOf(k) : ~sfLate[p]) =>
         /\ sfFnCalls[k] <= 1
         /\ \A p, q \in SFCallersOf(k) :
              (sfPc[p] = "returned" /\ sfPc[q] = "returned") => sfRet[p] = sfRet[q]

\* Callers of key k that are inside Do: past g.m.Load and not returned.
SFInProgress(k) ==
  {p \in Callers : sfKey[p] = k /\ sfPc[p] \in {"store", "fn", "delete", "wait"}}

\* C38: the call record of a key is removed after its execution finishes:
\* whenever no Do call for a key is in progress the map holds no record for
\* that key, after any interleaving of Do calls, so that no finished record
\* is left for a later caller to reuse.
C38_RecordLifecycle ==
  \A k \in SFKeys : SFInProgress(k) = {} => sfM[k] = NoCall

\* Two executions for one key have overlapped, a caller has waited on one of
\* them, every call of the key has returned and the map is empty.
C38_Witness ==
  \E k \in SFKeys :
     /\ SFInProgress(k) = {}
     /\ sfFnEnded[k] = 2
     /\ \E p \in Callers : sfKey[p] = k /\ sfPc[p] = "returned" /\ sfWaitOn[p] # NoCall
     /\ sfM[k] = NoCall

\* The step a caller inside Do takes next; fn returns some result.
SFStep(p) ==
  \/ SFStore(p)
  \/ \E r \in FnResults : SFFnReturn(p, r)
  \/ SFDelete(p)
  \/ SFWaitReturn(p)

\* Every caller that is inside Do takes its next step when it can, and every
\* invocation of fn returns.
SFFairness == \A p \in Callers : WF_vars(SFStep(p))

\* C39: provided every invocation of fn returns, every Do call eventually
\* returns; a caller waiting on an in-flight call's completion latch is
\* always released and returns that call's value and error, under any
\* interleaving of concurrent callers for the same key.
C39_Returns == \A p \in Callers : (sfPc[p] # "idle") ~> (sfPc[p] = "returned")

C39_Shared ==
  \A p \in Callers :
     (sfPc[p] = "returned" /\ sfWaitOn[p] # NoCall) => sfRet[p] = sfRes[sfWaitOn[p]]

C39_Liveness == C39_Returns /\ [](C39_Shared)

\* A caller that waited on another caller's record has returned its result.
C39_Witness ==
  \E p \in Callers :
     /\ sfPc[p] = "returned"
     /\ sfWaitOn[p] \notin {NoCall, p}
     /\ sfRet[p] = sfRes[sfWaitOn[p]]
     /\ sfRet[p] # NoResult

(***************************************************************************)
(* Part 2.  store.lruCache                                                 *)
(*                                                                         *)
(* The recency list is container/list: a ring of elements around the       *)
(* sentinel l.root, each element carrying next, prev and the list it       *)
(* belongs to.  It is modelled pointer by pointer, because Get keeps an    *)
(* element pointer across its two lock sections.                           *)
(***************************************************************************)

LRUKeys == {"a", "b"}
LRUValues == {"1", "22"}

\* The expiration argument of SetWithExpiration, in clock ticks (0: none).
TTLs == {0, 1}

\* The clock stops advancing at MaxTime.
MaxTime == 2

\* List elements that exist at once (live ones and those a Get still holds).
MaxElems == 3

\* Gets that can be between their read-locked and write-locked sections.
MaxGets == 1

\* Expired-key deletions (go c.Delete(key)) that can be pending at once.
MaxAsync == 1

\* Options.MaxBytes of the store under check.
LRUMaxBytes == 4

Root == 0     \* the sentinel element l.root
Nil == -1     \* a nil pointer, or a key absent from items
NoExp == -1   \* a key absent from expires

ElemIds == 1..MaxElems
ListNodes == 0..MaxElems
GetSlots == 1..MaxGets

\* A Get slot that holds no Get.
NoGet == [key |-> "", elem |-> Nil]

\* The store's fields as one record, for the operators below.
LruState ==
  [next |-> lNext, prev |-> lPrev, owner |-> lOwner, len |-> lLen,
   ekey |-> eKey, eval |-> eVal, items |-> items, expires |-> expires,
   used |-> usedBytes, max |-> maxBytes,
   order |-> lruOrder, caplog |-> {}, fired |-> <<>>]

\* value.Len() and len(key).
ValueLen(v) == Len(v)
KeyLen(k) == Len(k)

\* container/list Init(): only the sentinel is reset; the elements keep their
\* next, prev and list fields.
ListInit(s) ==
  [s EXCEPT !.next[Root] = Root, !.prev[Root] = Root, !.len = 0]

\* container/list Remove(e): unlinks e when it belongs to the list.
ListRemove(s, e) ==
  IF ~s.owner[e] THEN s
  ELSE LET s1 == [s EXCEPT !.next[s.prev[e]] = s.next[e]]
           s2 == [s1 EXCEPT !.prev[s1.next[e]] = s1.prev[e]]
       IN [s2 EXCEPT !.next[e] = Nil, !.prev[e] = Nil, !.owner[e] = FALSE,
                     !.len = @ - 1]

\* container/list insert(e, at), used by PushBack with at = l.root.prev.
ListPushBack(s, e) ==
  LET at == s.prev[Root]
      s1 == [s EXCEPT !.prev[e] = at]
      s2 == [s1 EXCEPT !.next[e] = s1.next[at]]
      s3 == [s2 EXCEPT !.next[s2.prev[e]] = e]
      s4 == [s3 EXCEPT !.prev[s3.next[e]] = e]
  IN [s4 EXCEPT !.owner[e] = TRUE, !.len = @ + 1]

\* container/list move(e, at).
ListMove(s, e, at) ==
  IF e = at THEN s
  ELSE LET s1 == [s EXCEPT !.next[s.prev[e]] = s.next[e]]
           s2 == [s1 EXCEPT !.prev[s1.next[e]] = s1.prev[e]]
           s3 == [s2 EXCEPT !.prev[e] = at]
           s4 == [s3 EXCEPT !.next[e] = s3.next[at]]
           s5 == [s4 EXCEPT !.next[s4.prev[e]] = e]
           s6 == [s5 EXCEPT !.prev[s5.next[e]] = e]
       IN s6

\* container/list MoveToBack(e): nothing when e is not of this list or is
\* already the last element.
ListMoveToBack(s, e) ==
  IF ~s.owner[e] \/ s.prev[Root] = e THEN s ELSE ListMove(s, e, s.prev[Root])

\* container/list Front().
ListFront(s) == IF s.len = 0 THEN Nil ELSE s.next[Root]

\* The elements met walking from the front along next, up to the sentinel.
RECURSIVE ListWalk(_, _, _)
ListWalk(s, e, n) ==
  IF n = 0 \/ e = Root \/ e = Nil THEN <<>>
  ELSE <<e>> \o ListWalk(s, s.next[e], n - 1)

ListSeq(s) == ListWalk(s, s.next[Root], MaxElems + 1)

\* A sequence without the element e / with e moved to its end.
SeqWithout(q, e) == SelectSeq(q, LAMBDA x : x # e)
SeqToBack(q, e) == Append(SeqWithout(q, e), e)

\* Options.OnEvicted of the store under check is set (c.onEvicted != nil).
OnEvictedSet == TRUE

\* c.onEvicted(key, value), when the callback is configured.
FireOnEvicted(s, k, v) ==
  IF OnEvictedSet THEN [s EXCEPT !.fired = Append(@, [key |-> k, val |-> v])] ELSE s

\* removeElement without its callback: a variant that removes silently.
RemoveElementSilent(s, e) ==
  LET k == s.ekey[e]
      v == s.eval[e]
      s1 == ListRemove(s, e)
  IN [s1 EXCEPT !.items[k] = Nil,
                !.expires[k] = NoExp,
                !.used = @ - (KeyLen(k) + ValueLen(v)),
                !.order = SeqWithout(@, e)]

\* removeElement, lines 188-199, for an element that carries an entry.
RemoveElement(s, e) ==
  LET k == s.ekey[e]
      v == s.eval[e]
      s1 == ListRemove(s, e)
  IN FireOnEvicted([s1 EXCEPT !.items[k] = Nil,
                              !.expires[k] = NoExp,
                              !.used = @ - (KeyLen(k) + ValueLen(v)),
                              !.order = SeqWithout(@, e)], k, v)

\* evict without its first loop: a variant whose sweep removes nothing.
SweepNothing(s, now, ks) == s

\* evict, lines 204-211: every key of expires whose deadline has passed is
\* removed, when it is in items.
RECURSIVE SweepExpired(_, _, _)
SweepExpired(s, now, ks) ==
  IF ks = {} THEN s
  ELSE LET k == CHOOSE x \in ks : TRUE
           hit == s.expires[k] # NoExp /\ now > s.expires[k] /\ s.items[k] # Nil
       IN SweepExpired(IF hit THEN RemoveElement(s, s.items[k]) ELSE s, now, ks \ {k})

\* The capacity eviction that removes the front element e, with what the
\* history says about it: the least recently accessed live entry at that
\* moment, and the byte counter before the removal.
CapEvictOne(s, e) ==
  LET r == [victim |-> e,
            lra |-> IF s.order = <<>> THEN Nil ELSE Head(s.order),
            over |-> s.used > s.max]
      s1 == RemoveElement(s, e)
  IN [s1 EXCEPT !.caplog = @ \cup {r}]

\* evict, lines 214-219: while over capacity and the list is not empty, the
\* front element is removed.
RECURSIVE EvictCap(_)
EvictCap(s) ==
  IF ~(s.max > 0 /\ s.used > s.max /\ s.len > 0) THEN s
  ELSE EvictCap(CapEvictOne(s, ListFront(s)))

\* evict, lines 202-220.
Evict(s, now) == EvictCap(SweepExpired(s, now, LRUKeys))

\* The elements reachable from the sentinel, the index and the elements that
\* Gets hold, along next and prev.
RECURSIVE Reach(_, _, _)
Reach(s, S, n) ==
  IF n = 0 THEN S
  ELSE Reach(s, (S \cup {s.next[x] : x \in S} \cup {s.prev[x] : x \in S}) \ {Nil}, n - 1)

Held(gets) == {gets[g].elem : g \in GetSlots} \ {Nil}

Reachable(s, gets) ==
  Reach(s, ({Root} \cup {s.items[k] : k \in LRUKeys} \cup Held(gets)) \ {Nil},
        MaxElems + 1)

\* Garbage collection: an element nothing refers to any more is given back.
Collect(s, gets) ==
  LET live == Reachable(s, gets)
      dead(e) == e \notin live
  IN [s EXCEPT
        !.next = [e \in ListNodes |-> IF dead(e) THEN Nil ELSE s.next[e]],
        !.prev = [e \in ListNodes |-> IF dead(e) THEN Nil ELSE s.prev[e]],
        !.owner = [e \in ListNodes |-> IF dead(e) THEN FALSE ELSE s.owner[e]],
        !.ekey = [e \in ElemIds |-> IF dead(e) THEN "" ELSE s.ekey[e]],
        !.eval = [e \in ElemIds |-> IF dead(e) THEN "" ELSE s.eval[e]]]

\* The elements available to a new entry (&lruEntry{key, value} and the
\* list element PushBack allocates for it).
FreeElems(s, gets) == ElemIds \ Reachable(s, gets)

NewElem(s, gets) == CHOOSE e \in FreeElems(s, gets) : \A f \in FreeElems(s, gets) : e <= f

\* The next state of the store's variables is the record s, collected.
LruCommit(s0, gets) ==
  \E s \in {Collect(s0, gets)} :
     /\ lNext' = s.next
     /\ lPrev' = s.prev
     /\ lOwner' = s.owner
     /\ lLen' = s.len
     /\ eKey' = s.ekey
     /\ eVal' = s.eval
     /\ items' = s.items
     /\ expires' = s.expires
     /\ usedBytes' = s.used
     /\ maxBytes' = s.max
     /\ lruOrder' = s.order
     /\ lruCapLog' = s.caplog
     /\ lruGet' = gets

\* The list and the index agree: the list holds exactly the indexed elements,
\* each under its own key, and len counts them.  An operation that starts in
\* such a state leaves one, except the recency move of Get; the model does not
\* follow the store beyond a state where they disagree.
LRUIntact ==
  /\ lLen = Len(ListSeq(LruState))
  /\ {ListSeq(LruState)[i] : i \in 1..Len(ListSeq(LruState))} = {items[k] : k \in LRUKeys} \ {Nil}
  /\ \A k \in LRUKeys : items[k] # Nil => lOwner[items[k]] /\ eKey[items[k]] = k

\* The number of goroutines started by Get that have not run Delete yet.
RECURSIVE SumOver(_, _)
SumOver(f, S) == IF S = {} THEN 0 ELSE LET x == CHOOSE y \in S : TRUE IN f[x] + SumOver(f, S \ {x})

AsyncPending == SumOver(lruAsyncDel, LRUKeys)

\* What lruLast holds: the operation, its key, value and expiration arguments,
\* the boolean it returned (found, removed, updated), the value it returned,
\* and for UpdateExpiration the deadline the key had when it was called.
LastOp(op, k, v, ttl, ok, out) ==
  [op |-> op, key |-> k, val |-> v, ttl |-> ttl, ok |-> ok, out |-> out,
   was |-> IF op = "UpdateExpiration" THEN expires[k] ELSE NoExp]

NoOp == LastOp("none", "", "", 0, FALSE, "")

\* newLRUCache, lines 42-64.
LRUInit ==
  /\ lruLast = NoOp
  /\ lruFired = <<>>
  /\ lruClosed = "open"
  /\ lruSwept = 0
  /\ lNext = [e \in ListNodes |-> IF e = Root THEN Root ELSE Nil]
  /\ lPrev = [e \in ListNodes |-> IF e = Root THEN Root ELSE Nil]
  /\ lOwner = [e \in ListNodes |-> FALSE]
  /\ lLen = 0
  /\ eKey = [e \in ElemIds |-> ""]
  /\ eVal = [e \in ElemIds |-> ""]
  /\ items = [k \in LRUKeys |-> Nil]
  /\ expires = [k \in LRUKeys |-> NoExp]
  /\ usedBytes = 0
  /\ maxBytes = LRUMaxBytes
  /\ lruNow = 0
  /\ lruGet = [g \in GetSlots |-> NoGet]
  /\ lruAsyncDel = [k \in LRUKeys |-> 0]
  /\ lruOrder = <<>>
  /\ lruCapLog = {}

\* A variant of SetWithExpiration that charges an overwritten key the whole
\* new value.
SetEntryCharged(s, gets, k, v, ttl, now) ==
  LET s1 == [s EXCEPT !.expires[k] = IF ttl > 0 THEN now + ttl ELSE NoExp]
  IN IF s1.items[k] # Nil
       THEN LET e == s1.items[k]
                s2 == [s1 EXCEPT !.used = @ + ValueLen(v),
                                 !.eval[e] = v,
                                 !.order = SeqToBack(@, e)]
            IN ListMoveToBack(s2, e)
       ELSE LET e == NewElem(s1, gets)
                s2 == [s1 EXCEPT !.ekey[e] = k, !.eval[e] = v]
                s3 == ListPushBack(s2, e)
                s4 == [s3 EXCEPT !.items[k] = e,
                                 !.used = @ + (KeyLen(k) + ValueLen(v)),
                                 !.order = Append(@, e)]
            IN Evict(s4, now)

\* SetWithExpiration, lines 117-147, on the store s.
SetEntry(s, gets, k, v, ttl, now) ==
  LET s1 == [s EXCEPT !.expires[k] = IF ttl > 0 THEN now + ttl ELSE NoExp]
  IN IF s1.items[k] # Nil
       THEN LET e == s1.items[k]
                s2 == [s1 EXCEPT !.used = @ + (ValueLen(v) - ValueLen(s1.eval[e])),
                                 !.eval[e] = v,
                                 !.order = SeqToBack(@, e)]
            IN ListMoveToBack(s2, e)
       ELSE LET e == NewElem(s1, gets)
                s2 == [s1 EXCEPT !.ekey[e] = k, !.eval[e] = v]
                s3 == ListPushBack(s2, e)
                s4 == [s3 EXCEPT !.items[k] = e,
                                 !.used = @ + (KeyLen(k) + ValueLen(v)),
                                 !.order = Append(@, e)]
            IN Evict(s4, now)

\* Set (lines 104-106) and SetWithExpiration (lines 109-147) with a value
\* that is not nil.
LRUSetWithExpiration(k, v, ttl) ==
  /\ LRUIntact
  /\ items[k] = Nil => FreeElems(LruState, lruGet) # {}
  /\ LruCommit(SetEntry(LruState, lruGet, k, v, ttl, lruNow), lruGet)
  /\ UNCHANGED <<lruNow, lruAsyncDel>>
  /\ LRUFrame

\* Get, lines 69-90: the read-locked section.  A miss returns; an expired
\* entry returns a miss and starts go c.Delete(key); a hit keeps the element
\* for the write-locked section.
LRUGetRead(g, k) ==
  /\ LRUIntact
  /\ lruGet[g] = NoGet
  /\ items[k] # Nil
  /\ IF expires[k] # NoExp /\ lruNow > expires[k]
       THEN /\ AsyncPending < MaxAsync
            /\ lruAsyncDel' = [lruAsyncDel EXCEPT ![k] = @ + 1]
            /\ LruCommit(LruState, lruGet)
       ELSE /\ LruCommit(LruState, [lruGet EXCEPT ![g] = [key |-> k, elem |-> items[k]]])
            /\ UNCHANGED lruAsyncDel
  /\ UNCHANGED lruNow
  /\ LRUFrame

\* Get, lines 93-100: the write-locked section.  When the key is (still, or
\* again) in items, the element read earlier is moved to the back.  The
\* history counts the access when that element is still the key's entry.
LRUGetMove(g) ==
  /\ LRUIntact
  /\ lruGet[g] # NoGet
  /\ LET k == lruGet[g].key
         e == lruGet[g].elem
         s == LruState
         s1 == IF s.items[k] # Nil THEN ListMoveToBack(s, e) ELSE s
         s2 == IF s.items[k] = e THEN [s1 EXCEPT !.order = SeqToBack(@, e)] ELSE s1
     IN LruCommit(s2, [lruGet EXCEPT ![g] = NoGet])
  /\ UNCHANGED <<lruNow, lruAsyncDel>>
  /\ LRUFrame

\* Delete, lines 150-159.
DeleteEntry(s, k) == IF s.items[k] # Nil THEN RemoveElement(s, s.items[k]) ELSE s

LRUDelete(k) ==
  /\ LRUIntact
  /\ items[k] # Nil
  /\ LruCommit(DeleteEntry(LruState, k), lruGet)
  /\ UNCHANGED <<lruNow, lruAsyncDel>>
  /\ LRUFrame

\* The goroutine started by Get at line 82 runs Delete(key).
LRUAsyncDelete(k) ==
  /\ LRUIntact
  /\ lruAsyncDel[k] > 0
  /\ lruAsyncDel' = [lruAsyncDel EXCEPT ![k] = @ - 1]
  /\ LruCommit(DeleteEntry(LruState, k), lruGet)
  /\ UNCHANGED lruNow
  /\ LRUFrame

\* Clear, lines 167-172: the callback is made for every indexed entry.
RECURSIVE FireAll(_, _)
FireAll(s, ks) ==
  IF ks = {} THEN s
  ELSE LET k == CHOOSE x \in ks : TRUE
           e == s.items[k]
       IN FireAll(IF e # Nil THEN FireOnEvicted(s, s.ekey[e], s.eval[e]) ELSE s, ks \ {k})

\* Clear, lines 162-178.
ClearStore(s) ==
  [ListInit(FireAll(s, LRUKeys)) EXCEPT !.items = [k \in LRUKeys |-> Nil],
                                        !.expires = [k \in LRUKeys |-> NoExp],
                                        !.used = 0,
                                        !.order = <<>>]

LRUClear ==
  /\ LRUIntact
  /\ lLen # 0
  /\ LruCommit(ClearStore(LruState), lruGet)
  /\ UNCHANGED <<lruNow, lruAsyncDel>>
  /\ LRUFrame

\* cleanupLoop, lines 223-234: a tick of the cleanup ticker.
LRUSweep ==
  /\ LRUIntact
  /\ LruCommit(Evict(LruState, lruNow), lruGet)
  /\ UNCHANGED <<lruNow, lruAsyncDel>>
  /\ LRUFrame

\* Time passes.
LRUTick ==
  /\ LRUIntact
  /\ lruNow < MaxTime
  /\ lruNow' = lruNow + 1
  /\ lruCapLog' = {}
  /\ UNCHANGED <<lNext, lPrev, lOwner, lLen, eKey, eVal, items, expires, usedBytes,
                 maxBytes, lruGet, lruAsyncDel, lruOrder>>
  /\ LRUFrame

LRUNext ==
  \/ \E k \in LRUKeys, v \in LRUValues, ttl \in TTLs : LRUSetWithExpiration(k, v, ttl)
  \/ \E g \in GetSlots, k \in LRUKeys : LRUGetRead(g, k)
  \/ \E g \in GetSlots : LRUGetMove(g)
  \/ \E k \in LRUKeys : LRUDelete(k)
  \/ \E k \in LRUKeys : LRUAsyncDelete(k)
  \/ LRUClear
  \/ LRUSweep
  \/ LRUTick

\* C2: with maxBytes > 0, after any sequence of Set and SetWithExpiration
\* operations (new keys and overwrites), usedBytes <= maxBytes or the store is
\* empty.
C2_Capacity == maxBytes > 0 => (usedBytes <= maxBytes \/ lLen = 0)

\* C3: the recency list holds the live entries ordered by last access (a Get
\* hit or a Set), least recent at the front, and every capacity eviction
\* removes the least recently accessed live entry, and only while usedBytes
\* exceeds maxBytes.
C3_Recency ==
  /\ ListSeq(LruState) = lruOrder
  /\ \A r \in lruCapLog : r.victim = r.lra /\ r.over

\* C28: under any interleaving of Get with concurrent Delete, Clear and Set,
\* every key in the index maps to exactly one node of the recency list and
\* the list contains no node whose key is absent from the index: the recency
\* move of Get's second phase never re-links a node that was removed between
\* the two lock acquisitions.
C28_IndexListConsistent ==
  LET q == ListSeq(LruState)
  IN /\ \A k \in LRUKeys :
          items[k] # Nil => Cardinality({i \in 1..Len(q) : q[i] = items[k]}) = 1
     /\ \A i \in 1..Len(q) : items[eKey[q[i]]] = q[i]

\* C31: a live (not expired) entry is removed only by an explicit Delete,
\* Clear, a nil-value Set, capacity eviction or its own TTL expiring: the
\* deletion that a Get scheduled when it saw an expired entry never removes a
\* live entry that a concurrent Set stored under the same key in the meantime.
LiveEntry(k) == items[k] # Nil /\ (expires[k] = NoExp \/ lruNow <= expires[k])

C31_Step ==
  \A k \in LRUKeys :
     (LiveEntry(k) /\ lruAsyncDel'[k] < lruAsyncDel[k]) => items'[k] # Nil

C31_AsyncDeleteSparesFresh == [][C31_Step]_vars

(***************************************************************************)
(* Part 2b: store.lruCache, one caller at a time                           *)
(*                                                                         *)
(* The operations below are the whole methods of lruCache, called one      *)
(* after the other as in store/lru_test.go: Get runs its two lock sections *)
(* back to back.  The goroutines the store starts itself (go c.Delete of   *)
(* Get, cleanupLoop) still run between the calls.  Every operation records *)
(* what it was and what it returned, and the onEvicted calls it made.      *)
(***************************************************************************)

\* A nil Value and a Value whose Len() is 0.
NilValue == "<nil>"
EmptyValue == ""

\* The value arguments of SetWithExpiration.
SetArgs == {"22", NilValue, EmptyValue}

\* Options.CleanupInterval of the store under check, in clock ticks.
CleanupInterval == 1

\* A panic ends the program.
Running == lruClosed # "panic"

\* The next state of the store and of the history.
OpCommit(s, last) ==
  /\ LruCommit(s, lruGet)
  /\ lruFired' = s.fired
  /\ lruLast' = last

\* hasExp && time.Now().After(expTime), lines 78, 206 and 257.
Expired(k, now) == expires[k] # NoExp /\ now > expires[k]

\* Get, lines 67-101.
Get(k) ==
  /\ Running
  /\ IF items[k] = Nil
       THEN /\ OpCommit(LruState, LastOp("Get", k, "", 0, FALSE, NilValue))
            /\ UNCHANGED lruAsyncDel
       ELSE IF Expired(k, lruNow)
       THEN /\ AsyncPending < MaxAsync
            /\ lruAsyncDel' = [lruAsyncDel EXCEPT ![k] = @ + 1]
            /\ OpCommit(LruState, LastOp("Get", k, "", 0, FALSE, NilValue))
       ELSE /\ LET e == items[k]
                   s1 == ListMoveToBack(LruState, e)
               IN OpCommit([s1 EXCEPT !.order = SeqToBack(@, e)],
                           LastOp("Get", k, "", 0, TRUE, eVal[e]))
            /\ UNCHANGED lruAsyncDel
  /\ UNCHANGED <<lruNow, lruClosed, lruSwept>>
  /\ LRUOpFrame

\* GetWithExpiration, lines 245-271: under the read lock; a key that is stored
\* and has not expired is moved to the back of the list, and its value and
\* remaining time are returned.  An expired key is left for the sweeper.
GetWithExpiration(k) ==
  /\ Running
  /\ IF items[k] = Nil \/ Expired(k, lruNow)
       THEN OpCommit(LruState, LastOp("GetWithExpiration", k, "", 0, FALSE, NilValue))
       ELSE LET e == items[k]
                s1 == ListMoveToBack(LruState, e)
                ttl == IF expires[k] # NoExp THEN expires[k] - lruNow ELSE 0
            IN OpCommit([s1 EXCEPT !.order = SeqToBack(@, e)],
                        LastOp("GetWithExpiration", k, "", ttl, TRUE, eVal[e]))
  /\ UNCHANGED <<lruNow, lruAsyncDel, lruClosed, lruSwept>>
  /\ LRUOpFrame

\* GetExpiration, lines 274-280: under the read lock; the key's deadline in
\* the ttl field, and whether it has one.
GetExpiration(k) ==
  /\ Running
  /\ OpCommit(LruState,
              LastOp("GetExpiration", k, "", IF expires[k] # NoExp THEN expires[k] ELSE 0,
                     expires[k] # NoExp, ""))
  /\ UNCHANGED <<lruNow, lruAsyncDel, lruClosed, lruSwept>>
  /\ LRUOpFrame

\* Len, lines 181-185, and UsedBytes, lines 301-305: under the read lock; the
\* number returned is in the ttl field.
CacheLen ==
  /\ Running
  /\ OpCommit(LruState, LastOp("Len", "", "", lLen, TRUE, ""))
  /\ UNCHANGED <<lruNow, lruAsyncDel, lruClosed, lruSwept>>
  /\ LRUOpFrame

UsedBytes ==
  /\ Running
  /\ OpCommit(LruState, LastOp("UsedBytes", "", "", usedBytes, TRUE, ""))
  /\ UNCHANGED <<lruNow, lruAsyncDel, lruClosed, lruSwept>>
  /\ LRUOpFrame

\* Set (lines 104-106) and SetWithExpiration (lines 109-147): a nil value
\* deletes the key, any other value is stored.
SetWithExpiration(k, v, ttl) ==
  /\ Running
  /\ IF v = NilValue
       THEN OpCommit(DeleteEntry(LruState, k), LastOp("Set", k, v, ttl, TRUE, ""))
       ELSE /\ items[k] = Nil => FreeElems(LruState, lruGet) # {}
            /\ OpCommit(SetEntry(LruState, lruGet, k, v, ttl, lruNow),
                        LastOp("Set", k, v, ttl, TRUE, ""))
  /\ UNCHANGED <<lruNow, lruAsyncDel, lruClosed, lruSwept>>
  /\ LRUOpFrame

\* Delete, lines 150-159.
Delete(k) ==
  /\ Running
  /\ OpCommit(DeleteEntry(LruState, k), LastOp("Delete", k, "", 0, items[k] # Nil, ""))
  /\ UNCHANGED <<lruNow, lruAsyncDel, lruClosed, lruSwept>>
  /\ LRUOpFrame

\* The goroutine started by Get at line 82 runs Delete(key).
AsyncDelete(k) ==
  /\ Running
  /\ lruAsyncDel[k] > 0
  /\ lruAsyncDel' = [lruAsyncDel EXCEPT ![k] = @ - 1]
  /\ OpCommit(DeleteEntry(LruState, k), LastOp("AsyncDelete", k, "", 0, items[k] # Nil, ""))
  /\ UNCHANGED <<lruNow, lruClosed, lruSwept>>
  /\ LRUOpFrame

\* Clear, lines 162-178.
Clear ==
  /\ Running
  /\ OpCommit(ClearStore(LruState), LastOp("Clear", "", "", 0, TRUE, ""))
  /\ UNCHANGED <<lruNow, lruAsyncDel, lruClosed, lruSwept>>
  /\ LRUOpFrame

\* UpdateExpiration that restarts the deadline from zero: a variant.
UpdateEntryFromZero(s, k, ttl, now) ==
  IF s.items[k] = Nil THEN s
  ELSE [s EXCEPT !.expires[k] = IF ttl > 0 THEN ttl ELSE NoExp]

\* UpdateExpiration, lines 283-298.
UpdateEntry(s, k, ttl, now) ==
  IF s.items[k] = Nil THEN s
  ELSE [s EXCEPT !.expires[k] = IF ttl > 0 THEN now + ttl ELSE NoExp]

UpdateExpiration(k, ttl) ==
  /\ Running
  /\ OpCommit(UpdateEntry(LruState, k, ttl, lruNow),
              LastOp("UpdateExpiration", k, "", ttl, items[k] # Nil, ""))
  /\ UNCHANGED <<lruNow, lruAsyncDel, lruClosed, lruSwept>>
  /\ LRUOpFrame

\* The cleanup ticker (line 60) has sent a tick that cleanupLoop has not
\* served: ticks come every CleanupInterval, and cleanupLoop listens until
\* closeCh is closed.
TickDue == lruClosed = "open" /\ lruNow % CleanupInterval = 0 /\ lruSwept < lruNow

\* cleanupLoop, lines 223-234: a tick of the cleanup ticker is served.
CleanupLoop ==
  /\ Running
  /\ TickDue
  /\ OpCommit(Evict(LruState, lruNow), LastOp("Cleanup", "", "", 0, TRUE, ""))
  /\ lruSwept' = lruNow
  /\ UNCHANGED <<lruNow, lruAsyncDel, lruClosed>>
  /\ LRUOpFrame

\* Close, lines 237-242: cleanupTicker is never nil after newLRUCache, so every
\* call stops the ticker and closes closeCh; closing a closed channel panics.
CloseCh(c) == IF c = "open" THEN "closed" ELSE "panic"

Close ==
  /\ Running
  /\ lruClosed' = CloseCh(lruClosed)
  /\ OpCommit(LruState, LastOp("Close", "", "", 0, TRUE, ""))
  /\ UNCHANGED <<lruNow, lruAsyncDel, lruSwept>>
  /\ LRUOpFrame

\* Time passes, once cleanupLoop has served the tick that is due.
Tick ==
  /\ Running
  /\ lruNow < MaxTime
  /\ ~TickDue
  /\ lruNow' = lruNow + 1
  /\ OpCommit(LruState, LastOp("Tick", "", "", 0, TRUE, ""))
  /\ UNCHANGED <<lruAsyncDel, lruClosed, lruSwept>>
  /\ LRUOpFrame

LRUOpsNext ==
  \/ \E k \in LRUKeys, v \in SetArgs, ttl \in TTLs : SetWithExpiration(k, v, ttl)
  \/ \E k \in LRUKeys : Get(k)
  \/ \E k \in LRUKeys : Delete(k)
  \/ \E k \in LRUKeys : AsyncDelete(k)
  \/ \E k \in LRUKeys, ttl \in TTLs : UpdateExpiration(k, ttl)
  \/ Clear
  \/ CleanupLoop
  \/ Close
  \/ Tick

\* The store with every method of lruCache, the read-only ones included.
LRULocksNext ==
  \/ LRUOpsNext
  \/ \E k \in LRUKeys : GetWithExpiration(k)
  \/ \E k \in LRUKeys : GetExpiration(k)
  \/ CacheLen
  \/ UsedBytes

\* The methods that run under c.mu.RLock() from start to end.
ReadLocked == {"GetWithExpiration", "GetExpiration", "Len", "UsedBytes"}

\* C29, step by step: a method that holds only the read lock changes neither
\* the list, nor the index, nor the expiry map, nor the byte counter; so
\* whatever changes one of them holds the write lock.
C29_Step ==
  lruLast'.op \in ReadLocked =>
    UNCHANGED <<lNext, lPrev, lOwner, lLen, items, expires, usedBytes>>

\* C29: every operation that modifies the recency list, the index, the expiry
\* map or the byte counter does so while holding the write lock; operations
\* that hold only the read lock (the first phase of Get, GetWithExpiration,
\* GetExpiration, Len, UsedBytes) modify none of them.
C29_LockDiscipline == [][C29_Step]_vars

\* Len() and UsedBytes(), lines 181-185 and 300-305, against the index: the
\* number of indexed keys and the bytes of their entries.
StoredKeys == {k \in LRUKeys : items[k] # Nil}
StoredBytes == SumOver([k \in LRUKeys |-> IF items[k] = Nil THEN 0
                                           ELSE KeyLen(k) + ValueLen(eVal[items[k]])], LRUKeys)

\* The onEvicted calls of the last operation that were made for key k.
FiredFor(k) == {i \in 1..Len(lruFired) : lruFired[i].key = k}

\* C11, for a store that is not closed.  Once the cleanup tick of an instant
\* has been served, no entry whose deadline has passed is left: Len and
\* usedBytes count the remaining entries only.
C11_Swept ==
  /\ lLen = Cardinality(StoredKeys)
  /\ usedBytes = StoredBytes
  /\ (lruClosed = "open" /\ lruSwept = lruNow) =>
        \A k \in StoredKeys : ~Expired(k, lruNow)

\* C11, step by step: a Get of a key whose deadline has passed returns a
\* miss, and a cleanup tick removes every such key and calls onEvicted with
\* its key and value.
C11_Step ==
  /\ lruLast'.op = "Get" =>
        (Expired(lruLast'.key, lruNow) => ~lruLast'.ok /\ lruLast'.out = NilValue)
  /\ lruLast'.op = "Cleanup" =>
        \A k \in StoredKeys :
           Expired(k, lruNow) =>
              /\ items'[k] = Nil
              /\ \E i \in 1..Len(lruFired') :
                    lruFired'[i] = [key |-> k, val |-> eVal[items[k]]]

\* C11: after an entry's TTL has elapsed, Get(key) returns a miss, and the
\* entry is physically removed (gone from Len and usedBytes, onEvicted fired)
\* within one cleanup interval of expiring even if no operation touches it:
\* the clock does not pass a cleanup tick before cleanupLoop has served it.
C11_TTLExpiry == [](C11_Swept) /\ [][C11_Step]_vars

\* A cleanup tick has removed the only entry, expired, and called onEvicted.
C11_Witness ==
  /\ lruLast.op = "Cleanup"
  /\ Len(lruFired) = 1
  /\ lLen = 0
  /\ usedBytes = 0
  /\ Cardinality(FiredFor(lruFired[1].key)) = 1

\* C12, UpdateExpiration step by step: on an absent key it returns false and
\* changes nothing; on a present key it returns true and only replaces the
\* key's deadline, by now + ttl when ttl > 0 and by none otherwise.
C12_Update ==
  lruLast'.op = "UpdateExpiration" =>
    LET k == lruLast'.key
        ttl == lruLast'.ttl
    IN /\ UNCHANGED <<lNext, lPrev, lLen, eKey, eVal, items, usedBytes, lruOrder>>
       /\ lruFired' = <<>>
       /\ IF items[k] = Nil
            THEN ~lruLast'.ok /\ UNCHANGED expires
            ELSE /\ lruLast'.ok
                 /\ expires' = [expires EXCEPT ![k] = IF ttl > 0 THEN lruNow + ttl ELSE NoExp]

\* C12, Get step by step: Get returns an entry exactly when the key is stored
\* and the time is not after its current deadline, whatever deadline the key
\* had before.
C12_Get ==
  lruLast'.op = "Get" =>
    LET k == lruLast'.key
    IN /\ lruLast'.ok <=> (items[k] # Nil /\ ~Expired(k, lruNow))
       /\ lruLast'.ok => lruLast'.out = eVal[items[k]]

\* C12: UpdateExpiration(key, ttl) on an absent key returns false and changes
\* nothing; on a present key it returns true and replaces the deadline with
\* now + ttl when ttl > 0 or removes the expiry when ttl <= 0, so an entry
\* whose TTL was extended before it expired is still returned by Get after
\* its original deadline.
C12_UpdateExpiration == [][C12_Update /\ C12_Get]_vars

\* An entry has had its deadline extended before it expired.
C12_Witness ==
  /\ lruLast.op = "UpdateExpiration"
  /\ lruLast.ok
  /\ lruLast.was # NoExp
  /\ lruNow <= lruLast.was
  /\ expires[lruLast.key] > lruLast.was

\* C13: SetWithExpiration(k, v, t) with v nil or of zero length deletes k:
\* afterwards k is not stored (Get(k) misses, k adds nothing to Len or
\* usedBytes), whatever t is and whether or not k was present.
C13_EmptyValueDeletes ==
  (lruLast.op = "Set" /\ (lruLast.val = NilValue \/ ValueLen(lruLast.val) = 0)) =>
     /\ items[lruLast.key] = Nil
     /\ lLen = Cardinality(StoredKeys \ {lruLast.key})
     /\ usedBytes = StoredBytes

\* C14, for one key and one operation: the onEvicted calls the operation
\* made for the key, against what the operation did to the key's entry.
C14_Key(k) ==
  LET cbs == {i \in 1..Len(lruFired') : lruFired'[i].key = k}
  IN /\ (items[k] # Nil /\ items'[k] = Nil) =>
           /\ Cardinality(cbs) = 1
           /\ \A i \in cbs : lruFired'[i].val = eVal[items[k]]
     /\ items'[k] # Nil => cbs = {}
     /\ (items[k] = Nil /\ items'[k] = Nil /\ cbs # {}) =>
           /\ Cardinality(cbs) = 1
           /\ lruLast'.op = "Set" /\ lruLast'.key = k
           /\ \A i \in cbs : lruFired'[i].val = lruLast'.val

\* C14: with onEvicted configured, it fires exactly once, with the removed key
\* and value, for every entry removed from the store by explicit Delete, TTL
\* expiry, capacity eviction or Clear, and never for an entry that remains in
\* the store.
C14_EvictionCallback == [][\A k \in LRUKeys : C14_Key(k)]_vars

\* Clear has removed two entries and called onEvicted twice.
C14_Witness ==
  /\ lruLast.op = "Clear"
  /\ Len(lruFired) = 2
  /\ lruFired[1].key # lruFired[2].key
  /\ StoredKeys = {}

\* C15: Close is safe to call more than once: a second (or concurrent) Close
\* does not panic and has no further effect.
C15_CloseTwice == lruClosed # "panic"

\* C30: in every reachable state usedBytes equals the sum over all stored
\* entries of len(key) + value.Len(), after any sequence of Set (new key or
\* overwrite), Delete, capacity eviction, TTL sweep and Clear.
C30_ByteAccounting ==
  usedBytes = SumOver([k \in LRUKeys |->
                         IF items[k] = Nil THEN 0
                         ELSE KeyLen(eKey[items[k]]) + ValueLen(eVal[items[k]])],
                      LRUKeys)

\* A Set of a new key has pushed the store over maxBytes and the capacity
\* eviction has removed an entry; an entry is left and its bytes are counted.
C30_Witness ==
  /\ lruLast.op = "Set"
  /\ lruLast.val # NilValue
  /\ lruFired # <<>>
  /\ StoredKeys # {}
  /\ usedBytes > 0

\* C32: once a key's TTL has elapsed, no later Get returns the expired value
\* unless the key is Set again: a Get that hits has found a key whose deadline
\* has not passed, and UpdateExpiration on an expired entry that the sweeper
\* has not removed yet does not bring the entry back to life.
C32_GetLive ==
  (lruLast.op = "Get" /\ lruLast.ok) => ~Expired(lruLast.key, lruNow)

C32_UpdateKeepsDead ==
  (lruLast.op = "UpdateExpiration" /\ lruLast.was # NoExp /\ lruNow > lruLast.was) =>
     (items[lruLast.key] = Nil \/ Expired(lruLast.key, lruNow))

C32_NoResurrection == C32_GetLive /\ C32_UpdateKeepsDead

(***************************************************************************)
(* Part 3: Group (group.go) and the RPC server handlers (server.go)        *)
(*                                                                         *)
(* Every node runs one Group of the same name, created by NewGroup with    *)
(* no expiration.  Callers invoke Get, Set, Delete and Close on a node's   *)
(* group; a Set or Delete may spawn go syncToPeers, whose peer.Set or      *)
(* peer.Delete is an RPC handled by Server.Set or Server.Delete on the     *)
(* other node.  The Cache facade, the PeerPicker and the RPC client are    *)
(* not part of the sources: PickPeer and peer.Get are choices over the     *)
(* results their contracts allow, and the facade is a map from key to      *)
(* value that drops every operation after Close.                           *)
(***************************************************************************)

\* Number of Get/Set/Delete/Close invocations followed (callers and RPC handlers).
MaxTasks == 2

Nodes == {"n1", "n2"}
TaskIds == 1..MaxTasks

\* The key the callers use; "" is the empty key.
GKeys == {"k"}
KeyArgs == GKeys \cup {""}

\* The value the callers set; "" is the empty value.
SetValues == {"v"}
ValueArgs == SetValues \cup {""}

NoValue == ""   \* ByteView{}
NoErr == ""     \* a nil error

ErrKeyRequired == "key is required"
ErrValueRequired == "value is required"
ErrGroupClosed == "cache group is closed"

\* What PickPeer(key) can answer: !ok, isSelf, or the other node.
PickResults == {"none", "self", "other"}

\* What peer.Get(group, key) can answer.
PeerValue == "pv"
PeerError == "rpc failed"
PeerGetResults == { [val |-> PeerValue, err |-> NoErr], [val |-> NoValue, err |-> PeerError] }

\* What g.getter.Get(ctx, key) can answer.
OriginValue == "ov"
OriginError == "origin failed"
GetterResults == { [val |-> OriginValue, err |-> NoErr], [val |-> NoValue, err |-> OriginError] }

Other(n) == CHOOSE m \in Nodes : m # n

ZeroStats == [loads |-> 0, localHits |-> 0, localMisses |-> 0, peerHits |-> 0,
              peerMisses |-> 0, loaderHits |-> 0, loaderErrors |-> 0]

NoRet == [val |-> "?", err |-> "?"]

NoCallRec == [done |-> FALSE, val |-> NoValue, err |-> NoErr]

\* A task not yet started.  node, op, key, value, fromPeer are the receiver
\* and arguments of the call (fromPeer: its ctx carries "from_peer"); call is
\* the single-flight record it executes or waits on; ret is what it returned.
\* History: via (caller or RPC handler), origin (the caller's invocation it
\* stems from), peer (skipped, ok, fail) and getter (ok, fail) for what
\* loadData got from each, added (load
\* wrote the cache), spawned (go syncToPeers issued), won (Close won the CAS),
\* afterClose (it began after a Close on its node had returned), d (the
\* statistics increments it made).
FreeTask == [pc |-> "free", node |-> "", op |-> "", key |-> "", value |-> NoValue,
             fromPeer |-> FALSE, call |-> NoCall, ret |-> NoRet,
             via |-> "", origin |-> 0, peer |-> "", getter |-> "", added |-> FALSE,
             spawned |-> 0, won |-> FALSE, afterClose |-> FALSE, d |-> ZeroStats]

GroupInit ==
  /\ gClosed = [n \in Nodes |-> 0]
  /\ gPeers = [n \in Nodes |-> FALSE]
  /\ mainCache = [n \in Nodes |-> [k \in GKeys |-> NoValue]]
  /\ cacheCloses = [n \in Nodes |-> 0]
  /\ groups = [n \in Nodes |-> TRUE]
  /\ stats = [n \in Nodes |-> ZeroStats]
  /\ loaderM = [n \in Nodes |-> [k \in GKeys |-> NoCall]]
  /\ calls = [t \in TaskIds |-> NoCallRec]
  /\ tasks = [t \in TaskIds |-> FreeTask]
  /\ syncs = {}
  /\ rpcs = {}
  /\ peerCalls = {}

\* ---- the Cache facade ----

CacheGet(n, k) == IF cacheCloses[n] > 0 THEN NoValue ELSE mainCache[n][k]

CacheAdd(n, k, v) ==
  IF cacheCloses[n] > 0 THEN mainCache ELSE [mainCache EXCEPT ![n][k] = v]

CacheDelete(n, k) ==
  IF cacheCloses[n] > 0 THEN mainCache ELSE [mainCache EXCEPT ![n][k] = NoValue]

CacheClose(n) == [mainCache EXCEPT ![n] = [k \in GKeys |-> NoValue]]

\* ---- pure steps of group.go and server.go ----

\* Variant of Validate that tests the key before the closed flag.
ValidateKeyFirst(closed, op, key, value) ==
  IF key = "" THEN ErrKeyRequired
  ELSE IF closed = 1 THEN ErrGroupClosed
  ELSE IF op = "Set" /\ Len(value) = 0 THEN ErrValueRequired
  ELSE NoErr

\* The checks at the head of Group.Get, Group.Set and Group.Delete.
Validate(closed, op, key, value) ==
  IF closed = 1 THEN ErrGroupClosed
  ELSE IF key = "" THEN ErrKeyRequired
  ELSE IF op = "Set" /\ Len(value) = 0 THEN ErrValueRequired
  ELSE NoErr

\* getFromPeer: wraps the error of peer.Get.
GetFromPeer(r) ==
  IF r.err # NoErr THEN [val |-> NoValue, err |-> "failed to get from peer: " \o r.err]
  ELSE [val |-> r.val, err |-> NoErr]

\* Variant of AfterPeer that always goes on to the getter.
AfterPeerIgnoreHit(r) == [return |-> FALSE, val |-> NoValue, err |-> NoErr]

\* Variant of AfterPeer that returns the peer's error.
AfterPeerReturnErr(r) == [return |-> TRUE, val |-> r.val, err |-> r.err]

\* loadData after getFromPeer answered r: return the value, or fall through
\* to the getter.
AfterPeer(r) ==
  IF r.err = NoErr THEN [return |-> TRUE, val |-> r.val, err |-> NoErr]
  ELSE [return |-> FALSE, val |-> NoValue, err |-> NoErr]

\* loadData after g.getter.Get answered r.
AfterGetter(r) ==
  IF r.err # NoErr THEN [val |-> NoValue, err |-> "failed to get data: " \o r.err]
  ELSE [val |-> r.val, err |-> NoErr]

\* The ctx of a caller of the library: it does not carry from_peer.
CallerCtx == FALSE

\* The ctx a caller hands to the peer: syncToPeers passes syncCtx, which
\* carries from_peer, to peer.Set; peer.Delete takes no ctx.
PeerCallCtx(op) == op = "Set"

\* The ctx the server handler receives: the request carries group, key and
\* value only.
WireCtx(c) == FALSE

\* Variant of ServerSetCtx that passes the ctx on as received.
ServerSetCtxAsIs(c) == c

\* Server.Set: tags the ctx with from_peer when it is not tagged.
ServerSetCtx(c) == IF c = FALSE THEN TRUE ELSE c

\* Server.Delete: passes the ctx on as received.
ServerDeleteCtx(c) == c

\* Variant of CloseCAS that always succeeds.
CloseCASAlways(closed) == TRUE

\* Group.Close: atomic.CompareAndSwapInt32(&g.closed, 0, 1) succeeds.
CloseCAS(closed) == closed = 0

\* ---- tasks ----

FirstFree(t) ==
  /\ tasks[t].pc = "free"
  /\ \A u \in TaskIds : u < t => tasks[u].pc # "free"

ClosedBefore(n) ==
  \E u \in TaskIds : tasks[u].op = "Close" /\ tasks[u].node = n /\ tasks[u].pc = "done"

Finish(tk, val, err) == [tk EXCEPT !.pc = "done", !.ret = [val |-> val, err |-> err]]

Bump(s, f) == [s EXCEPT ![f] = @ + 1]

Counted(tk, f) == [tk EXCEPT !.d = Bump(@, f)]

\* The head of Get, Set or Delete on node n: the closed flag and the arguments
\* are checked, and the call either returns the error or goes on.
Enter(t, n, op, k, v, ctx, via, origin) ==
  LET e == Validate(gClosed[n], op, k, v)
      tk == [FreeTask EXCEPT !.node = n, !.op = op, !.key = k, !.value = v,
                             !.fromPeer = ctx, !.via = via, !.origin = origin,
                             !.afterClose = ClosedBefore(n),
                             !.pc = CASE op = "Get" -> "cache"
                                      [] op = "Set" -> "add"
                                      [] OTHER -> "del"]
  IN tasks' = [tasks EXCEPT ![t] = IF e = NoErr THEN tk ELSE Finish(tk, NoValue, e)]

\* Group.Get, lines 136-142.
GroupGet(t, n, k) ==
  /\ FirstFree(t)
  /\ Enter(t, n, "Get", k, NoValue, CallerCtx, "caller", t)
  /\ UNCHANGED <<gClosed, gPeers, mainCache, cacheCloses, groups, stats, loaderM,
                 calls, syncs, rpcs, peerCalls>>
  /\ GroupFrame

\* Group.Get, lines 145-154: the local cache.
GetLocal(t) ==
  LET tk == tasks[t]
      n == tk.node
      v == CacheGet(n, tk.key)
  IN /\ tk.pc = "cache"
     /\ IF v # NoValue
          THEN /\ stats' = [stats EXCEPT ![n] = Bump(@, "localHits")]
               /\ tasks' = [tasks EXCEPT ![t] = Finish(Counted(tk, "localHits"), v, NoErr)]
          ELSE /\ stats' = [stats EXCEPT ![n] = Bump(@, "localMisses")]
               /\ tasks' = [tasks EXCEPT ![t] = [Counted(tk, "localMisses") EXCEPT !.pc = "sfload"]]
     /\ UNCHANGED <<gClosed, gPeers, mainCache, cacheCloses, groups, loaderM,
                    calls, syncs, rpcs, peerCalls>>
     /\ GroupFrame

\* load -> g.loader.Do: g.m.Load(key) (singleflight.go line 22).
LoaderLoad(t) ==
  LET tk == tasks[t]
      c == loaderM[tk.node][tk.key]
  IN /\ tk.pc = "sfload"
     /\ tasks' = [tasks EXCEPT ![t] = IF c # NoCall
                                        THEN [tk EXCEPT !.pc = "wait", !.call = c]
                                        ELSE [tk EXCEPT !.pc = "sfstore"]]
     /\ UNCHANGED <<gClosed, gPeers, mainCache, cacheCloses, groups, stats, loaderM,
                    calls, syncs, rpcs, peerCalls>>
     /\ GroupFrame

\* g.loader.Do: c := &call{}; c.wg.Add(1); g.m.Store(key, c) (lines 29-31).
LoaderStore(t) ==
  LET tk == tasks[t]
  IN /\ tk.pc = "sfstore"
     /\ loaderM' = [loaderM EXCEPT ![tk.node][tk.key] = t]
     /\ tasks' = [tasks EXCEPT ![t] = [tk EXCEPT !.pc = "peer", !.call = t]]
     /\ UNCHANGED <<gClosed, gPeers, mainCache, cacheCloses, groups, stats,
                    calls, syncs, rpcs, peerCalls>>
     /\ GroupFrame

\* loadData, lines 312-325: the peer.  When loadData returns here, Do stores
\* the result in the call record and releases the waiters.
LoadDataPeer(t, pk, pr) ==
  LET tk == tasks[t]
      n == tk.node
      r == GetFromPeer(pr)
      a == AfterPeer(r)
  IN /\ tk.pc = "peer"
     /\ IF ~(gPeers[n] /\ pk = "other")
          THEN /\ tasks' = [tasks EXCEPT ![t] =
                              [tk EXCEPT !.pc = "getter",
                                         !.peer = "skipped"]]
               /\ UNCHANGED <<stats, calls>>
          ELSE /\ stats' = [stats EXCEPT ![n] =
                              Bump(@, IF r.err = NoErr THEN "peerHits" ELSE "peerMisses")]
               /\ tasks' = [tasks EXCEPT ![t] =
                              [Counted(tk, IF r.err = NoErr THEN "peerHits" ELSE "peerMisses")
                                 EXCEPT !.pc = IF a.return THEN "sfdelete" ELSE "getter",
                                        !.peer = IF r.err = NoErr THEN "ok" ELSE "fail"]]
               /\ calls' = IF a.return
                             THEN [calls EXCEPT ![t] = [done |-> TRUE, val |-> a.val, err |-> a.err]]
                             ELSE calls
     /\ UNCHANGED <<gClosed, gPeers, mainCache, cacheCloses, groups, loaderM,
                    syncs, rpcs, peerCalls>>
     /\ GroupFrame

\* loadData, lines 328-335: the getter; then Do stores the result in the
\* call record and releases the waiters (singleflight.go lines 34-35).
LoadDataGetter(t, gr) ==
  LET tk == tasks[t]
      n == tk.node
      a == AfterGetter(gr)
  IN /\ tk.pc = "getter"
     /\ IF gr.err # NoErr
          THEN /\ tasks' = [tasks EXCEPT ![t] = [tk EXCEPT !.pc = "sfdelete", !.getter = "fail"]]
               /\ UNCHANGED stats
          ELSE /\ stats' = [stats EXCEPT ![n] = Bump(@, "loaderHits")]
               /\ tasks' = [tasks EXCEPT ![t] =
                              [Counted(tk, "loaderHits") EXCEPT !.pc = "sfdelete", !.getter = "ok"]]
     /\ calls' = [calls EXCEPT ![t] = [done |-> TRUE, val |-> a.val, err |-> a.err]]
     /\ UNCHANGED <<gClosed, gPeers, mainCache, cacheCloses, groups, loaderM,
                    syncs, rpcs, peerCalls>>
     /\ GroupFrame

\* g.loader.Do: g.m.Delete(key) and return (singleflight.go lines 38-40).
LoaderDelete(t) ==
  LET tk == tasks[t]
  IN /\ tk.pc = "sfdelete"
     /\ loaderM' = [loaderM EXCEPT ![tk.node][tk.key] = NoCall]
     /\ tasks' = [tasks EXCEPT ![t] = [tk EXCEPT !.pc = "post"]]
     /\ UNCHANGED <<gClosed, gPeers, mainCache, cacheCloses, groups, stats,
                    calls, syncs, rpcs, peerCalls>>
     /\ GroupFrame

\* g.loader.Do: c.wg.Wait() returns (singleflight.go lines 24-25).
LoaderWait(t) ==
  LET tk == tasks[t]
  IN /\ tk.pc = "wait"
     /\ calls[tk.call].done
     /\ tasks' = [tasks EXCEPT ![t] = [tk EXCEPT !.pc = "post"]]
     /\ UNCHANGED <<gClosed, gPeers, mainCache, cacheCloses, groups, stats, loaderM,
                    calls, syncs, rpcs, peerCalls>>
     /\ GroupFrame

\* load, lines 288-306: the bookkeeping every caller of Do runs on its result.
LoadFinish(t) ==
  LET tk == tasks[t]
      n == tk.node
      c == calls[tk.call]
  IN /\ tk.pc = "post"
     /\ IF c.err # NoErr
          THEN /\ stats' = [stats EXCEPT ![n] = Bump(Bump(@, "loads"), "loaderErrors")]
               /\ tasks' = [tasks EXCEPT ![t] =
                              Finish(Counted(Counted(tk, "loads"), "loaderErrors"), NoValue, c.err)]
               /\ UNCHANGED mainCache
          ELSE /\ stats' = [stats EXCEPT ![n] = Bump(@, "loads")]
               /\ mainCache' = CacheAdd(n, tk.key, c.val)
               /\ tasks' = [tasks EXCEPT ![t] =
                              Finish([Counted(tk, "loads") EXCEPT !.added = TRUE], c.val, NoErr)]
     /\ UNCHANGED <<gClosed, gPeers, cacheCloses, groups, loaderM,
                    calls, syncs, rpcs, peerCalls>>
     /\ GroupFrame

\* Group.Set, lines 160-169.
GroupSet(t, n, k, v) ==
  /\ FirstFree(t)
  /\ Enter(t, n, "Set", k, v, CallerCtx, "caller", t)
  /\ UNCHANGED <<gClosed, gPeers, mainCache, cacheCloses, groups, stats, loaderM,
                 calls, syncs, rpcs, peerCalls>>
  /\ GroupFrame

\* go g.syncToPeers(ctx, op, key, value) issued by task t.
Spawn(t) ==
  [node |-> tasks[t].node, op |-> tasks[t].op, key |-> tasks[t].key,
   value |-> tasks[t].value, origin |-> tasks[t].origin, by |-> t]

\* Group.Set, lines 172-189.
SetLocal(t) ==
  LET tk == tasks[t]
      n == tk.node
      isPeerRequest == tk.fromPeer
      sync == ~isPeerRequest /\ gPeers[n]
  IN /\ tk.pc = "add"
     /\ mainCache' = CacheAdd(n, tk.key, tk.value)
     /\ syncs' = IF sync THEN syncs \cup {Spawn(t)} ELSE syncs
     /\ tasks' = [tasks EXCEPT ![t] =
                    Finish([tk EXCEPT !.spawned = IF sync THEN 1 ELSE 0], NoValue, NoErr)]
     /\ UNCHANGED <<gClosed, gPeers, cacheCloses, groups, stats, loaderM,
                    calls, rpcs, peerCalls>>
     /\ GroupFrame

\* Group.Delete, lines 195-201.
GroupDelete(t, n, k) ==
  /\ FirstFree(t)
  /\ Enter(t, n, "Delete", k, NoValue, CallerCtx, "caller", t)
  /\ UNCHANGED <<gClosed, gPeers, mainCache, cacheCloses, groups, stats, loaderM,
                 calls, syncs, rpcs, peerCalls>>
  /\ GroupFrame

\* Group.Delete, lines 204-214.
DeleteLocal(t) ==
  LET tk == tasks[t]
      n == tk.node
      isPeerRequest == tk.fromPeer
      sync == ~isPeerRequest /\ gPeers[n]
  IN /\ tk.pc = "del"
     /\ mainCache' = CacheDelete(n, tk.key)
     /\ syncs' = IF sync THEN syncs \cup {Spawn(t)} ELSE syncs
     /\ tasks' = [tasks EXCEPT ![t] =
                    Finish([tk EXCEPT !.spawned = IF sync THEN 1 ELSE 0], NoValue, NoErr)]
     /\ UNCHANGED <<gClosed, gPeers, cacheCloses, groups, stats, loaderM,
                    calls, rpcs, peerCalls>>
     /\ GroupFrame

\* syncToPeers, lines 219-243: PickPeer answers pk; a peer other than self
\* gets peer.Set(syncCtx, ...) or peer.Delete(...).  The answer of the peer is
\* only logged.
SyncToPeers(s, pk) ==
  LET call == [op |-> s.op, from |-> s.node, to |-> Other(s.node), key |-> s.key,
               value |-> s.value, ctx |-> PeerCallCtx(s.op), origin |-> s.origin, by |-> s.by]
  IN /\ s \in syncs
     /\ syncs' = syncs \ {s}
     /\ IF pk = "other"
          THEN /\ rpcs' = rpcs \cup {call}
               /\ peerCalls' = peerCalls \cup {call}
          ELSE UNCHANGED <<rpcs, peerCalls>>
     /\ UNCHANGED <<gClosed, gPeers, mainCache, cacheCloses, groups, stats, loaderM,
                    calls, tasks>>
     /\ GroupFrame

\* Server.Set / Server.Delete, lines 678-681 and 698-701: GetGroup finds no
\* group of that name.
ServerReject(m) ==
  /\ m \in rpcs
  /\ ~groups[m.to]
  /\ rpcs' = rpcs \ {m}
  /\ UNCHANGED <<gClosed, gPeers, mainCache, cacheCloses, groups, stats, loaderM,
                 calls, tasks, syncs, peerCalls>>
  /\ GroupFrame

\* Server.Set, lines 683-689, up to the checks at the head of group.Set.
ServerSet(m, t) ==
  /\ m \in rpcs
  /\ m.op = "Set"
  /\ groups[m.to]
  /\ FirstFree(t)
  /\ rpcs' = rpcs \ {m}
  /\ Enter(t, m.to, "Set", m.key, m.value, ServerSetCtx(WireCtx(m.ctx)), "rpc", m.origin)
  /\ UNCHANGED <<gClosed, gPeers, mainCache, cacheCloses, groups, stats, loaderM,
                 calls, syncs, peerCalls>>
  /\ GroupFrame

\* Server.Delete, lines 703-704, up to the checks at the head of group.Delete.
ServerDelete(m, t) ==
  /\ m \in rpcs
  /\ m.op = "Delete"
  /\ groups[m.to]
  /\ FirstFree(t)
  /\ rpcs' = rpcs \ {m}
  /\ Enter(t, m.to, "Delete", m.key, NoValue, ServerDeleteCtx(WireCtx(m.ctx)), "rpc", m.origin)
  /\ UNCHANGED <<gClosed, gPeers, mainCache, cacheCloses, groups, stats, loaderM,
                 calls, syncs, peerCalls>>
  /\ GroupFrame

\* Group.Close, lines 260-262: the compare-and-swap on g.closed.
GroupClose(t, n) ==
  LET tk == [FreeTask EXCEPT !.node = n, !.op = "Close", !.via = "caller", !.origin = t,
                             !.afterClose = ClosedBefore(n)]
  IN /\ FirstFree(t)
     /\ IF CloseCAS(gClosed[n])
          THEN /\ gClosed' = [gClosed EXCEPT ![n] = 1]
               /\ tasks' = [tasks EXCEPT ![t] = [tk EXCEPT !.pc = "closecache", !.won = TRUE]]
          ELSE /\ UNCHANGED gClosed
               /\ tasks' = [tasks EXCEPT ![t] = Finish(tk, NoValue, NoErr)]
     /\ UNCHANGED <<gPeers, mainCache, cacheCloses, groups, stats, loaderM,
                    calls, syncs, rpcs, peerCalls>>
     /\ GroupFrame

\* Group.Close, lines 265-267: g.mainCache.Close().
CloseCache(t) ==
  LET tk == tasks[t]
  IN /\ tk.pc = "closecache"
     /\ cacheCloses' = [cacheCloses EXCEPT ![tk.node] = @ + 1]
     /\ mainCache' = CacheClose(tk.node)
     /\ tasks' = [tasks EXCEPT ![t] = [tk EXCEPT !.pc = "unregister"]]
     /\ UNCHANGED <<gClosed, gPeers, groups, stats, loaderM, calls, syncs, rpcs, peerCalls>>
     /\ GroupFrame

\* Group.Close, lines 270-275: delete(groups, g.name) and return nil.
CloseUnregister(t) ==
  LET tk == tasks[t]
  IN /\ tk.pc = "unregister"
     /\ groups' = [groups EXCEPT ![tk.node] = FALSE]
     /\ tasks' = [tasks EXCEPT ![t] = Finish(tk, NoValue, NoErr)]
     /\ UNCHANGED <<gClosed, gPeers, mainCache, cacheCloses, stats, loaderM,
                    calls, syncs, rpcs, peerCalls>>
     /\ GroupFrame

\* Group.RegisterPeers, lines 348-354 (a second call panics).  g.peers is
\* written without synchronisation, so the picker is registered before the
\* group is used.
RegisterPeers(n) ==
  /\ ~gPeers[n]
  /\ \A t \in TaskIds : tasks[t].pc = "free"
  /\ gPeers' = [gPeers EXCEPT ![n] = TRUE]
  /\ UNCHANGED <<gClosed, mainCache, cacheCloses, groups, stats, loaderM,
                 calls, tasks, syncs, rpcs, peerCalls>>
  /\ GroupFrame

GroupNext ==
  \/ \E t \in TaskIds, n \in Nodes, k \in KeyArgs : GroupGet(t, n, k)
  \/ \E t \in TaskIds : GetLocal(t)
  \/ \E t \in TaskIds : LoaderLoad(t)
  \/ \E t \in TaskIds : LoaderStore(t)
  \/ \E t \in TaskIds, pk \in PickResults, pr \in PeerGetResults : LoadDataPeer(t, pk, pr)
  \/ \E t \in TaskIds, gr \in GetterResults : LoadDataGetter(t, gr)
  \/ \E t \in TaskIds : LoaderDelete(t)
  \/ \E t \in TaskIds : LoaderWait(t)
  \/ \E t \in TaskIds : LoadFinish(t)
  \/ \E t \in TaskIds, n \in Nodes, k \in KeyArgs, v \in ValueArgs : GroupSet(t, n, k, v)
  \/ \E t \in TaskIds : SetLocal(t)
  \/ \E t \in TaskIds, n \in Nodes, k \in KeyArgs : GroupDelete(t, n, k)
  \/ \E t \in TaskIds : DeleteLocal(t)
  \/ \E s \in syncs, pk \in PickResults : SyncToPeers(s, pk)
  \/ \E m \in rpcs : ServerReject(m)
  \/ \E m \in rpcs, t \in TaskIds : ServerSet(m, t)
  \/ \E m \in rpcs, t \in TaskIds : ServerDelete(m, t)
  \/ \E t \in TaskIds, n \in Nodes : GroupClose(t, n)
  \/ \E t \in TaskIds : CloseCache(t)
  \/ \E t \in TaskIds : CloseUnregister(t)
  \/ \E n \in Nodes : RegisterPeers(n)

\* ---- what the tasks did ----

Gets == {t \in TaskIds : tasks[t].op = "Get"}
Returned(t) == tasks[t].pc = "done"

\* The Gets whose result comes from the loadData run by task c.
SharersOf(c) == {t \in Gets : tasks[t].call = c}

PeerCallsOf(o, op) == {c \in peerCalls : c.origin = o /\ c.op = op}
Ops(op) == {t \in TaskIds : tasks[t].op = op}

\* C4: on a local miss the origin loader is invoked only if no peer picker is
\* registered, the picker answers no peer or self, or the remote peer's Get
\* failed; when the remote peer's Get succeeds, its value is what loadData
\* and Group.Get return, peerHits is incremented and the origin loader is
\* not invoked.
C4_FallbackOrder ==
  /\ \A t \in Gets :
       /\ tasks[t].getter # "" => tasks[t].peer \in {"skipped", "fail"}
       /\ tasks[t].peer = "ok" =>
            /\ tasks[t].getter = ""
            /\ tasks[t].d.peerHits = 1
            /\ tasks[t].d.loaderHits = 0
            /\ calls[t] = [done |-> TRUE, val |-> PeerValue, err |-> NoErr]
            /\ Returned(t) => tasks[t].ret = [val |-> PeerValue, err |-> NoErr]
  /\ \A n \in Nodes :
       stats[n].peerHits = Cardinality({t \in Gets : tasks[t].node = n /\ tasks[t].peer = "ok"})

\* A Get has returned the value its peer answered.
C4_Witness ==
  \E t \in Gets : Returned(t) /\ tasks[t].peer = "ok" /\ tasks[t].ret.val = PeerValue

\* C5: when the picked remote peer's Get fails and the origin loader
\* succeeds, Group.Get returns the origin's value with no error, and that Get
\* increments peerMisses, loaderHits and localMisses by exactly 1 each; a Get
\* that went to load returns an error only if the origin loader failed, and
\* the error is then the wrapped origin error, never the peer's.
C5_PeerFailureRecovered ==
  \A t \in Gets : Returned(t) =>
    /\ (tasks[t].peer = "fail" /\ tasks[t].getter = "ok") =>
         /\ tasks[t].ret = [val |-> OriginValue, err |-> NoErr]
         /\ tasks[t].d.peerMisses = 1
         /\ tasks[t].d.loaderHits = 1
         /\ tasks[t].d.localMisses = 1
    /\ (tasks[t].call # NoCall /\ tasks[t].ret.err # NoErr) =>
         /\ tasks[tasks[t].call].getter = "fail"
         /\ tasks[t].ret.err = "failed to get data: " \o OriginError

\* A Get whose peer failed has returned the origin's value.
C5_Witness ==
  \E t \in Gets : /\ Returned(t)
                  /\ tasks[t].peer = "fail"
                  /\ tasks[t].getter = "ok"
                  /\ tasks[t].ret.val = OriginValue

\* C6: when the origin loader fails during a load, every Get served by that
\* load returns the wrapped error and inserts nothing into the local cache,
\* and loaderErrors is incremented exactly once for that failed loader
\* invocation, also when several Gets were coalesced onto it.
C6_OriginFailure ==
  /\ \A t \in Gets :
       (Returned(t) /\ tasks[t].call # NoCall /\ tasks[tasks[t].call].getter = "fail") =>
         /\ tasks[t].ret = [val |-> NoValue, err |-> "failed to get data: " \o OriginError]
         /\ ~tasks[t].added
  /\ \A c \in Gets : tasks[c].getter = "fail" =>
       /\ Cardinality({t \in SharersOf(c) : tasks[t].d.loaderErrors > 0}) <= 1
       /\ Returned(c) => tasks[c].d.loaderErrors = 1
  /\ \A n \in Nodes :
       stats[n].loaderErrors <=
         Cardinality({c \in Gets : tasks[c].node = n /\ tasks[c].getter = "fail"})

\* C7: a Group.Set whose ctx carries from_peer is applied locally and calls
\* no peer; the Set a server handles for a peer carries from_peer; every
\* peer.Set goes to a node other than the caller with a ctx tagged from_peer;
\* one Set of a caller results in at most one peer.Set in the whole cluster.
C7_SetPropagation ==
  /\ \A t \in Ops("Set") :
       /\ tasks[t].via = "rpc" => tasks[t].fromPeer
       /\ tasks[t].fromPeer =>
            /\ tasks[t].spawned = 0
            /\ \A s \in syncs \cup peerCalls : s.by # t
       /\ tasks[t].via = "caller" => Cardinality(PeerCallsOf(t, "Set")) <= 1
  /\ \A c \in peerCalls : c.op = "Set" => c.ctx /\ c.to # c.from

\* A Set propagated by a peer has been applied on the receiving node.
C7_Witness ==
  \E t \in Ops("Set") :
    /\ tasks[t].via = "rpc"
    /\ Returned(t)
    /\ tasks[t].ret.err = NoErr
    /\ mainCache[tasks[t].node][tasks[t].key] = tasks[t].value
    /\ Cardinality(PeerCallsOf(tasks[t].origin, "Set")) = 1

\* C8: the Delete a server handles for a peer reaches group.Delete with
\* from_peer set and emits no further peer Delete, so one Delete of a caller
\* results in at most one peer.Delete in the whole cluster, whatever the
\* pickers of the nodes answer.
C8_DeleteSuppression ==
  /\ \A t \in Ops("Delete") :
       /\ tasks[t].via = "rpc" => tasks[t].fromPeer /\ tasks[t].spawned = 0
       /\ tasks[t].via = "caller" => Cardinality(PeerCallsOf(t, "Delete")) <= 1

\* The error the contract prescribes for a call with these arguments on a
\* group whose closed flag is closed.
C9_Expected(closed, op, key, value) ==
  IF closed = 1 THEN ErrGroupClosed
  ELSE IF key = "" THEN ErrKeyRequired
  ELSE IF op = "Set" /\ value = "" THEN ErrValueRequired
  ELSE NoErr

C9_Step ==
  \A t \in TaskIds :
    (tasks[t].pc = "free" /\ tasks'[t].op \in {"Get", "Set", "Delete"}) =>
      LET e == C9_Expected(gClosed[tasks'[t].node], tasks'[t].op, tasks'[t].key, tasks'[t].value)
      IN IF e = NoErr
           THEN tasks'[t].pc # "done"
           ELSE /\ tasks'[t].pc = "done"
                /\ tasks'[t].ret = [val |-> NoValue, err |-> e]
                /\ tasks'[t].d = ZeroStats
                /\ UNCHANGED <<gClosed, mainCache, cacheCloses, groups, stats, loaderM,
                               calls, syncs, peerCalls>>
                /\ rpcs' \subseteq rpcs

\* C9: Get, Set and Delete return ErrGroupClosed when the group is closed,
\* otherwise ErrKeyRequired when the key is empty, otherwise (Set only)
\* ErrValueRequired when the value is empty, and in each of these cases the
\* call writes no cache, changes no counter, starts no load and issues no
\* propagation.
C9_Validation == [][C9_Step]_vars

\* A closed group has refused a Set with an empty key and an empty value
\* with ErrGroupClosed.
C9_Witness ==
  \E t \in Ops("Set") : /\ tasks[t].key = ""
                        /\ tasks[t].value = ""
                        /\ gClosed[tasks[t].node] = 1
                        /\ tasks[t].ret.err = ErrGroupClosed

\* C10: the mainCache is closed at most once; every Close returns nil; when
\* the Close that won the compare-and-swap has returned the cache has been
\* closed exactly once and the group is out of the registry; every Get, Set
\* and Delete that begins after a Close has returned returns ErrGroupClosed.
C10_CloseIdempotent ==
  /\ \A n \in Nodes : cacheCloses[n] <= 1
  /\ \A t \in Ops("Close") : Returned(t) =>
       /\ tasks[t].ret.err = NoErr
       /\ gClosed[tasks[t].node] = 1
       /\ tasks[t].won => cacheCloses[tasks[t].node] = 1 /\ ~groups[tasks[t].node]
  /\ \A t \in Ops("Get") \cup Ops("Set") \cup Ops("Delete") :
       tasks[t].afterClose => Returned(t) /\ tasks[t].ret.err = ErrGroupClosed

\* Two Closes of one group have returned, the second begun after the first
\* had returned.
C10_Witness ==
  \E t, u \in Ops("Close") :
    /\ t # u
    /\ tasks[t].node = tasks[u].node
    /\ Returned(t) /\ Returned(u)
    /\ tasks[t].won /\ tasks[u].afterClose
    /\ cacheCloses[tasks[t].node] = 1

\* C33: a value stored by Group.Set(k, v) is not subsequently overwritten in
\* the local cache by an older value that a concurrent Get(k), which missed
\* before that Set, loaded from a peer or the origin.  A Get goes to load
\* only after it found the cache without the key, so when the cache holds a
\* value of Set, every Get still loading missed before that Set wrote it.
C33_Step ==
  \A n \in Nodes, k \in GKeys :
     (mainCache[n][k] \in SetValues /\ mainCache'[n][k] # mainCache[n][k]) =>
        mainCache'[n][k] \notin {PeerValue, OriginValue}

C33_LocalFreshness == [][C33_Step]_vars

(***************************************************************************)
(* Part 4: store.lru2Store, the two-level store                            *)
(*                                                                         *)
(* One bucket (BucketCount 1, so every key hashes to it) with its two slot *)
(* tables: caches[0] is lvl0, which takes new keys, and caches[1] is lvl1, *)
(* which takes the entries pushed out of lvl0.  A slot table is a sequence *)
(* of slots in recency order, head first: the order of the adjacency table *)
(* dlnk from the sentinel; its length is the table's `last`.  A slot keeps *)
(* its key in the table's hash index until the slot is recycled, also when *)
(* it is a tombstone (expireAt 0).                                         *)
(***************************************************************************)

L2Keys == {"k1", "k2", "k3", "k4", "k5"}

\* The value stored under each key.
L2ValueOf == [k \in L2Keys |-> "v" \o SubSeq(k, 2, 2)]

\* Options of the store under check.
CapPerBucket == 2
Level2Cap == 2

Levels == {0, 1}

\* The capacity of each level's table.
LevelCap == [lv \in Levels |-> IF lv = 0 THEN CapPerBucket ELSE Level2Cap]

\* The clock of the two-level store stops advancing at L2MaxTime.
L2MaxTime == 1

\* expireAt of an entry that does not expire: later than the clock reaches.
Forever == L2MaxTime + 1

\* The expiration arguments of SetWithExpiration for each key, in clock ticks
\* (0: none): two keys are also stored with a deadline.
L2TTLs(k) == IF k \in {"k1", "k2"} THEN TTLs ELSE {0}

\* An unused slot, and what put reports when it recycled nothing.
NoSlot == [k |-> "", v |-> "", exp |-> 0]

\* expireAt of a value stored at time now with expiration ttl.
ExpireAt(ttl, now) == IF ttl > 0 THEN now + ttl ELSE Forever

\* A slot holds an entry that has not expired: expireAt > 0 and later than now.
Live(s, now) == s.exp > 0 /\ s.exp > now

\* hmap of a table: the position of the key's slot, 0 when it has none.
TabIndex(t, k) ==
  IF \E i \in 1..Len(t) : t[i].k = k THEN CHOOSE i \in 1..Len(t) : t[i].k = k ELSE 0

TabRemoveAt(t, i) == SubSeq(t, 1, i - 1) \o SubSeq(t, i + 1, Len(t))

\* adjust: a slot is moved to the head, or to the tail, of its table.
TabToHead(t, i) == <<t[i]>> \o TabRemoveAt(t, i)
TabToTail(t, i, s) == TabRemoveAt(t, i) \o <<s>>

\* cache.put without recycling: a variant that grows the table beyond cap.
TabPutGrow(t, cap, s) ==
  LET i == TabIndex(t, s.k)
  IN IF i # 0
       THEN [tab |-> <<s>> \o TabRemoveAt(t, i), out |-> NoSlot, status |-> 0]
       ELSE [tab |-> <<s>> \o t, out |-> NoSlot, status |-> 1]

\* cache.put that recycles the head: a variant that takes the slot used last.
TabPutHead(t, cap, s) ==
  LET i == TabIndex(t, s.k)
  IN IF i # 0
       THEN [tab |-> <<s>> \o TabRemoveAt(t, i), out |-> NoSlot, status |-> 0]
     ELSE IF Len(t) = cap
       THEN [tab |-> <<s>> \o SubSeq(t, 2, cap), out |-> t[1], status |-> 1]
     ELSE [tab |-> <<s>> \o t, out |-> NoSlot, status |-> 1]

\* cache.put: an indexed key is updated in place and moved to the head; a new
\* key takes the next free slot, or, when last == cap, the slot of the tail,
\* whose old content is handed back.
TabPut(t, cap, s) ==
  LET i == TabIndex(t, s.k)
  IN IF i # 0
       THEN [tab |-> <<s>> \o TabRemoveAt(t, i), out |-> NoSlot, status |-> 0]
     ELSE IF Len(t) = cap
       THEN [tab |-> <<s>> \o SubSeq(t, 1, cap - 1), out |-> t[cap], status |-> 1]
     ELSE [tab |-> <<s>> \o t, out |-> NoSlot, status |-> 1]

\* cache.del: the slot becomes a tombstone at the tail, next to be recycled.
TabDel(t, k) ==
  LET i == TabIndex(t, k)
  IN IF i # 0 /\ t[i].exp > 0 THEN TabToTail(t, i, [t[i] EXCEPT !.exp = 0]) ELSE t

\* The bucket as one record, for the operators below.
L2State == [c0 |-> caches[0], c1 |-> caches[1], fired |-> <<>>]

L2Fire(st, s) == [st EXCEPT !.fired = Append(@, [key |-> s.k, val |-> s.v])]

\* A variant of the demotion that evicts the entry pushed out of lvl0.
DemoteLose(st, d) == L2Fire(st, d)

\* An entry pushed out of lvl0 goes to the head of lvl1; what that pushes out
\* of lvl1's tail is evicted, with onEvicted.
Demote(st, d) ==
  LET r1 == TabPut(st.c1, Level2Cap, d)
      st1 == [st EXCEPT !.c1 = r1.tab]
  IN IF r1.out.exp > 0 THEN L2Fire(st1, r1.out) ELSE st1

\* A variant of the insertion that drops what lvl0 pushes out.
InsertLvl0Drop(st, s) ==
  LET r0 == TabPut(st.c0, CapPerBucket, s)
      st1 == [st EXCEPT !.c0 = r0.tab]
  IN IF r0.out.exp > 0 THEN L2Fire(st1, r0.out) ELSE st1

\* An entry is inserted at the head of lvl0; when lvl0 was full, its tail is
\* demoted.
InsertLvl0(st, s) ==
  LET r0 == TabPut(st.c0, CapPerBucket, s)
      st1 == [st EXCEPT !.c0 = r0.tab]
  IN IF r0.out.exp > 0 THEN Demote(st1, r0.out) ELSE st1

\* Put: a key of lvl0 or of lvl1 is updated where it is; a new key goes to
\* lvl0.
L2Put(st, s) ==
  IF TabIndex(st.c0, s.k) # 0
    THEN [st EXCEPT !.c0 = TabPut(@, CapPerBucket, s).tab]
  ELSE IF TabIndex(st.c1, s.k) # 0
    THEN [st EXCEPT !.c1 = TabPut(@, Level2Cap, s).tab]
  ELSE InsertLvl0(st, s)

\* The level in which Get finds the key: 0, 1, or -1 for a miss.
L2Find(st, k, now) ==
  LET i0 == TabIndex(st.c0, k)
      i1 == TabIndex(st.c1, k)
  IN IF i0 # 0 /\ Live(st.c0[i0], now) THEN 0
     ELSE IF i1 # 0 /\ Live(st.c1[i1], now) THEN 1
     ELSE -1

\* A variant of the promotion that leaves a hit of lvl1 where it is.
PromoteStay(st, k) ==
  [st EXCEPT !.c1 = TabToHead(@, TabIndex(@, k))]

\* A variant of the promotion that leaves the entry in lvl1 as well.
PromoteCopy(st, k) == InsertLvl0(st, st.c1[TabIndex(st.c1, k)])

\* Promotion: the entry is removed from lvl1 and inserted at the head of lvl0.
Promote(st, k) ==
  LET s == st.c1[TabIndex(st.c1, k)]
  IN InsertLvl0([st EXCEPT !.c1 = TabDel(@, k)], s)

\* Get: a hit of lvl0 moves to the head of lvl0, a hit of lvl1 is promoted.
L2Get(st, k, now) ==
  LET lv == L2Find(st, k, now)
  IN IF lv = 0 THEN [st EXCEPT !.c0 = TabToHead(@, TabIndex(@, k))]
     ELSE IF lv = 1 THEN Promote(st, k)
     ELSE st

\* The slot Delete removes: the key's slot in lvl0 or else in lvl1, when it is
\* not a tombstone.
L2Removable(st, k) ==
  LET i0 == TabIndex(st.c0, k)
      i1 == TabIndex(st.c1, k)
  IN IF i0 # 0 /\ st.c0[i0].exp > 0 THEN st.c0[i0]
     ELSE IF i1 # 0 /\ st.c1[i1].exp > 0 THEN st.c1[i1]
     ELSE NoSlot

\* A variant of Delete that makes the tombstones and calls no onEvicted.
L2DeleteSilent(st, k) ==
  [st EXCEPT !.c0 = TabDel(@, k), !.c1 = TabDel(@, k)]

\* Delete: the key's slots become tombstones and onEvicted is called once.
L2Delete(st, k) ==
  LET s == L2Removable(st, k)
      st1 == [st EXCEPT !.c0 = TabDel(@, k), !.c1 = TabDel(@, k)]
  IN IF s.exp > 0 THEN L2Fire(st1, s) ELSE st

\* The sweeper on one table: every entry whose expireAt is <= now is removed.
RECURSIVE TabSweep(_, _, _)
TabSweep(t, now, i) ==
  IF i = 0 THEN [tab |-> t, gone |-> <<>>]
  ELSE IF t[i].exp > 0 /\ t[i].exp <= now
    THEN LET r == TabSweep(TabToTail(t, i, [t[i] EXCEPT !.exp = 0]), now, i - 1)
         IN [tab |-> r.tab, gone |-> Append(r.gone, t[i])]
  ELSE TabSweep(t, now, i - 1)

RECURSIVE L2FireAll(_, _)
L2FireAll(st, q) == IF q = <<>> THEN st ELSE L2FireAll(L2Fire(st, Head(q)), Tail(q))

\* A variant of the sweeper that looks at lvl0 only.
L2SweepLvl0(st, now) ==
  LET r0 == TabSweep(st.c0, now, Len(st.c0))
  IN L2FireAll([st EXCEPT !.c0 = r0.tab], r0.gone)

\* The sweeper: a pass over both levels of the bucket.
L2Sweep(st, now) ==
  LET r0 == TabSweep(st.c0, now, Len(st.c0))
      r1 == TabSweep(st.c1, now, Len(st.c1))
  IN L2FireAll([st EXCEPT !.c0 = r0.tab, !.c1 = r1.tab], r0.gone \o r1.gone)

\* The promotion scenario: Set k1, k2, k3, Get k1, Set k4, k5, Get k1.
Scenario ==
  << [op |-> "Set", key |-> "k1"], [op |-> "Set", key |-> "k2"],
     [op |-> "Set", key |-> "k3"], [op |-> "Get", key |-> "k1"],
     [op |-> "Set", key |-> "k4"], [op |-> "Set", key |-> "k5"],
     [op |-> "Get", key |-> "k1"] >>

\* The run so far is the first n steps of the scenario (l2Scen = n), or is
\* not a prefix of it (-1).
ScenStep(op, k) ==
  IF l2Scen >= 0 /\ l2Scen < Len(Scenario) /\ Scenario[l2Scen + 1] = [op |-> op, key |-> k]
    THEN l2Scen + 1 ELSE -1

\* What l2Last holds: the operation, its key, whether it found the key, the
\* value it returned and the level that held the key when it was called.
L2LastOp(op, k, ok, out) ==
  [op |-> op, key |-> k, ok |-> ok, out |-> out,
   lv |-> IF k \in L2Keys THEN L2Find(L2State, k, l2Now) ELSE -1]

\* newLRU2Cache.
LRU2Init ==
  /\ caches = [lv \in Levels |-> <<>>]
  /\ l2Now = 0
  /\ l2Last = L2LastOp("none", "", FALSE, "")
  /\ l2Fired = <<>>
  /\ l2Scen = 0

L2Commit(st, last, scen) ==
  /\ caches' = [lv \in Levels |-> IF lv = 0 THEN st.c0 ELSE st.c1]
  /\ l2Fired' = st.fired
  /\ l2Last' = last
  /\ l2Scen' = scen

\* Set and SetWithExpiration.
LRU2Set(k, ttl) ==
  /\ L2Commit(L2Put(L2State, [k |-> k, v |-> L2ValueOf[k], exp |-> ExpireAt(ttl, l2Now)]),
              L2LastOp("Set", k, TRUE, ""),
              IF ttl = 0 THEN ScenStep("Set", k) ELSE -1)
  /\ UNCHANGED l2Now
  /\ LRU2Frame

\* Get.
LRU2Get(k) ==
  /\ LET lv == L2Find(L2State, k, l2Now)
         out == IF lv = 0 THEN caches[0][TabIndex(caches[0], k)].v
                ELSE IF lv = 1 THEN caches[1][TabIndex(caches[1], k)].v
                ELSE ""
     IN L2Commit(L2Get(L2State, k, l2Now), L2LastOp("Get", k, lv # -1, out),
                 ScenStep("Get", k))
  /\ UNCHANGED l2Now
  /\ LRU2Frame

\* Delete.
LRU2Delete(k) ==
  /\ L2Commit(L2Delete(L2State, k),
              L2LastOp("Delete", k, L2Removable(L2State, k).exp > 0, ""), -1)
  /\ UNCHANGED l2Now
  /\ LRU2Frame

\* A pass of the sweeper.
LRU2Sweep ==
  /\ L2Commit(L2Sweep(L2State, l2Now), L2LastOp("Sweep", "", TRUE, ""), -1)
  /\ UNCHANGED l2Now
  /\ LRU2Frame

\* Time passes.
LRU2Tick ==
  /\ l2Now < L2MaxTime
  /\ l2Now' = l2Now + 1
  /\ L2Commit(L2State, L2LastOp("Tick", "", TRUE, ""), -1)
  /\ LRU2Frame

LRU2Next ==
  \/ \E k \in L2Keys : \E ttl \in L2TTLs(k) : LRU2Set(k, ttl)
  \/ \E k \in L2Keys : LRU2Get(k)
  \/ \E k \in L2Keys : LRU2Delete(k)
  \/ LRU2Sweep
  \/ LRU2Tick

\* The keys with a live entry in a level.
LiveKeys(lv) == {k \in L2Keys : TabIndex(caches[lv], k) # 0
                                 /\ Live(caches[lv][TabIndex(caches[lv], k)], l2Now)}

\* The keys with an entry in a level that is not a tombstone.
HeldKeys(lv) == {k \in L2Keys : TabIndex(caches[lv], k) # 0
                                 /\ caches[lv][TabIndex(caches[lv], k)].exp > 0}

\* C16: in every reachable state the number of entries in lvl0 is at most
\* capPerBucket and the number of entries in lvl1 is at most level2Cap, after
\* any sequence of Set, Get, Delete and sweeps.
C16_LevelCapacity ==
  /\ Len(caches[0]) <= CapPerBucket
  /\ Len(caches[1]) <= Level2Cap

\* Both levels are full of live entries and the last Set pushed an entry out
\* of lvl1.
C16_Witness ==
  /\ Cardinality(LiveKeys(0)) = CapPerBucket
  /\ Cardinality(LiveKeys(1)) = Level2Cap
  /\ l2Last.op = "Set"
  /\ Len(l2Fired) = 1

\* C17: in every reachable state each live key is present in exactly one of
\* the two levels (never in both lvl0 and lvl1), across Put, Get-promotion,
\* demotion, Delete and sweeps; and neither table indexes a key twice.
C17_LevelExclusive ==
  /\ HeldKeys(0) \cap HeldKeys(1) = {}
  /\ \A lv \in Levels : \A i, j \in 1..Len(caches[lv]) :
        caches[lv][i].k = caches[lv][j].k => i = j

\* A promoted key is live in lvl0 while lvl1 still indexes its old slot, a
\* tombstone, and another key is live in lvl1.
C17_Witness ==
  /\ \E k \in LiveKeys(0) : TabIndex(caches[1], k) # 0
  /\ LiveKeys(1) # {}
  /\ l2Last.op = "Get"

\* C18, step by step: a Get that finds a live key in lvl1 returns its value,
\* removes it from lvl1 and inserts it at the head of lvl0 with its value and
\* deadline; after any Get that hits, the key is at the head of lvl0.
C18_Step ==
  (l2Last'.op = "Get" /\ l2Last'.ok) =>
    LET k == l2Last'.key
    IN /\ caches'[0] # <<>>
       /\ Head(caches'[0]).k = k
       /\ Live(Head(caches'[0]), l2Now)
       /\ l2Last'.out = Head(caches'[0]).v
       /\ l2Last'.lv = 1 =>
             /\ Head(caches'[0]) = caches[1][TabIndex(caches[1], k)]
             /\ TabIndex(caches'[1], k) # 0 => caches'[1][TabIndex(caches'[1], k)].exp = 0

C19_Step ==
  l2Last'.op = "Set" =>
    LET k == l2Last'.key
        d == caches[0][CapPerBucket]
        full == Len(caches[0]) = CapPerBucket
        fresh == TabIndex(caches[0], k) = 0 /\ TabIndex(caches[1], k) = 0
    IN /\ (full /\ fresh /\ d.exp > 0) =>
             /\ caches'[1] # <<>>
             /\ Head(caches'[1]) = d
             /\ \A i \in 1..Len(l2Fired') : l2Fired'[i].key # d.k
             /\ Live(d, l2Now) => L2Find(L2State', d.k, l2Now) = 1
       /\ l2Fired' # <<>> =>
             /\ Len(l2Fired') = 1
             /\ full /\ fresh /\ d.exp > 0
             /\ Len(caches[1]) = Level2Cap
             /\ l2Fired'[1] = [key |-> caches[1][Level2Cap].k, val |-> caches[1][Level2Cap].v]

\* C19: inserting a new key when lvl0 is full demotes lvl0's least recently
\* used entry to the head of lvl1 instead of dropping it: the demoted key is
\* still returned with its value by Get and onEvicted is not fired for it;
\* onEvicted fires only for an entry pushed out of lvl1's tail.
C19_Demotion == [][C19_Step]_vars

\* Set k1, k2, k3 with room for two keys in lvl0: k1 is at the head of lvl1
\* and no callback was made.
C19_Witness ==
  /\ l2Scen = 3
  /\ Head(caches[1]).k = "k1"
  /\ Head(caches[1]).v = "v1"
  /\ l2Fired = <<>>

C21_ScenarioMiss ==
  l2Scen = 7 => ~l2Last.ok

\* C22, step by step: a Delete of a key that is live in a level returns true,
\* calls onEvicted once, with that key and its value, and leaves the key's
\* slot a tombstone, so that Get misses; a Delete of a key that no level holds
\* returns false, calls nothing and changes nothing.
C22_Step ==
  l2Last'.op = "Delete" =>
    LET k == l2Last'.key
        lv == l2Last'.lv
    IN /\ lv # -1 =>
             /\ l2Last'.ok
             /\ l2Fired' = << [key |-> k, val |-> caches[lv][TabIndex(caches[lv], k)].v] >>
             /\ TabIndex(caches'[lv], k) # 0
             /\ caches'[lv][TabIndex(caches'[lv], k)].exp = 0
             /\ L2Find(L2State', k, l2Now) = -1
       /\ k \notin HeldKeys(0) \cup HeldKeys(1) =>
             /\ ~l2Last'.ok
             /\ l2Fired' = <<>>
             /\ caches' = caches

\* C22: Delete(key) of a live key in either level returns true, fires
\* onEvicted exactly once with that key, marks the slot as a tombstone
\* (expireAt = 0), and a following Get(key) misses; Delete of an absent key
\* returns false and fires no callback.
C22_Delete == [][C22_Step]_vars

\* A Delete has removed a key that was live in lvl1, while lvl0 holds live
\* keys: one callback was made and a Get of the key would miss.
C22_Witness ==
  /\ l2Last.op = "Delete"
  /\ l2Last.ok
  /\ l2Last.lv = 1
  /\ LiveKeys(0) # {}
  /\ Len(l2Fired) = 1
  /\ L2Find(L2State, l2Last.key, l2Now) = -1

\* C23, step by step: a Get of a key whose slot, in lvl0 or in lvl1, has an
\* expireAt <= now misses; after a pass of the sweeper no level has an entry
\* whose expireAt is <= now, and every key that Get would have found before
\* the pass is found after it, in the same level and with the same value.
C23_Step ==
  /\ l2Last'.op = "Get" =>
       \A lv \in Levels :
         LET i == TabIndex(caches[lv], l2Last'.key)
         IN (i # 0 /\ caches[lv][i].exp > 0 /\ caches[lv][i].exp <= l2Now) =>
               ~l2Last'.ok /\ l2Last'.out = ""
  /\ l2Last'.op = "Sweep" =>
       /\ \A lv \in Levels : \A i \in 1..Len(caches'[lv]) :
             caches'[lv][i].exp = 0 \/ caches'[lv][i].exp > l2Now
       /\ \A k \in L2Keys :
             LET lv == L2Find(L2State, k, l2Now)
             IN lv # -1 =>
                  /\ L2Find(L2State', k, l2Now) = lv
                  /\ caches'[lv][TabIndex(caches'[lv], k)]
                       = caches[lv][TabIndex(caches[lv], k)]

\* C23: Get on a key whose expireAt is <= now returns a miss whichever level
\* holds it, and each pass of the sweeper removes every such entry from both
\* levels while every unexpired entry stays retrievable.
C23_Expiry == [][C23_Step]_vars

\* A pass of the sweeper has removed one expired entry from each level, and
\* each level still holds a live entry.
C23_Witness ==
  /\ l2Last.op = "Sweep"
  /\ Len(l2Fired) = 2
  /\ \A lv \in Levels :
        /\ LiveKeys(lv) # {}
        /\ caches[lv][Len(caches[lv])].exp = 0
        /\ caches[lv][Len(caches[lv])].k = l2Fired[lv + 1].key

(***************************************************************************)
(* Part 4b: one slot table (the type cache of the two-level store)         *)
(*                                                                         *)
(* A table made by Create(TableCap) and used directly through put and get, *)
(* as in TestCacheBasic and TestCacheLRUEviction, with an onEvicted that   *)
(* records the keys it is called with.                                     *)
(***************************************************************************)

\* Create(3).
TableCap == 3

TableKeys == {"key1", "key2", "key3", "key4"}
TableValues == {"value", "new"}

\* The expireAt the tests pass to put.
TableExpireAt == 100

TableCall(op, k, status) == [op |-> op, key |-> k, status |-> status]

\* The keys in the table's hash index.
TableHeld(t) == {t[i].k : i \in 1..Len(t)}

\* The history order after key k was used.
Used(order, k) == <<k>> \o SelectSeq(order, LAMBDA x : x # k)

TableInit ==
  /\ tab = <<>>
  /\ tabLast = TableCall("none", "", 0)
  /\ tabFired = <<>>
  /\ tabOrder = <<>>

\* cache.put(key, val, expireAt, onEvicted): the callback is made for the
\* recycled slot when it held an entry (expireAt > 0).
TablePut(k, v) ==
  LET r == TabPut(tab, TableCap, [k |-> k, v |-> v, exp |-> TableExpireAt])
  IN /\ tab' = r.tab
     /\ tabFired' = IF r.out.exp > 0 THEN <<r.out.k>> ELSE <<>>
     /\ tabLast' = TableCall("put", k, r.status)
     /\ tabOrder' = Used(tabOrder, k)
     /\ TabFrame

\* cache.get(key): an indexed key is moved to the head and reported with
\* status 1, any other key with status 0.
TableGet(k) ==
  LET i == TabIndex(tab, k)
  IN /\ tab' = IF i # 0 THEN TabToHead(tab, i) ELSE tab
     /\ tabFired' = <<>>
     /\ tabLast' = TableCall("get", k, IF i # 0 THEN 1 ELSE 0)
     /\ tabOrder' = IF i # 0 THEN Used(tabOrder, k) ELSE tabOrder
     /\ TabFrame

TableNext ==
  \/ \E k \in TableKeys, v \in TableValues : TablePut(k, v)
  \/ \E k \in TableKeys : TableGet(k)

\* The key of held that was used longest ago.
LeastRecent(order, held) ==
  order[CHOOSE i \in 1..Len(order) :
          /\ order[i] \in held
          /\ \A j \in 1..Len(order) : order[j] \in held => j <= i]

\* C40: put returns 1 for a new key and 0 for an update of an existing key;
\* when the table is full, a put of a new key recycles exactly the least
\* recently used slot (recency being updated by get and put), fires
\* onEvicted once with that slot's key, and every other key stays
\* retrievable.
C40_Put ==
  tabLast'.op = "put" =>
     LET k == tabLast'.key
         held == TableHeld(tab)
         new == k \notin held
     IN /\ tabLast'.status = (IF new THEN 1 ELSE 0)
        /\ IF new /\ Len(tab) = TableCap
             THEN LET lru == LeastRecent(tabOrder, held)
                  IN /\ tabFired' = <<lru>>
                     /\ TableHeld(tab') = (held \ {lru}) \cup {k}
             ELSE /\ tabFired' = <<>>
                  /\ TableHeld(tab') = held \cup {k}
        /\ \E i \in 1..Len(tab') : tab'[i].k = k /\ tab'[i].v \in TableValues

C40_Get ==
  tabLast'.op = "get" =>
     /\ tabLast'.status = (IF tabLast'.key \in TableHeld(tab) THEN 1 ELSE 0)
     /\ TableHeld(tab') = TableHeld(tab)

C40_SlotTable == [][C40_Put /\ C40_Get]_vars

\* TestCacheLRUEviction: with key1 used after key2 and key3, the put of key4
\* into the full table has recycled key2's slot.
C40_Witness ==
  /\ tabLast = TableCall("put", "key4", 1)
  /\ tabFired = <<"key2">>
  /\ TableHeld(tab) = {"key1", "key3", "key4"}
  /\ tabOrder = <<"key4", "key1", "key3", "key2">>

(***************************************************************************)
(* Part 5: consistenthash.Map, the ring                                    *)
(*                                                                         *)
(* One Map built by New with a Config of few replicas, the callers of Add, *)
(* Remove and Get, and the goroutine startBalancer launches.  Add and      *)
(* Remove run under the write lock and are one step each; Get is two       *)
(* steps under the read lock, the lookup and the counting, so that Gets    *)
(* overlap; rebalanceNodes is one step from the moment it has the write    *)
(* lock.                                                                   *)
(***************************************************************************)

RingNodes == {"n1", "n2"}
RingKeys == {"key1", "key2", "k0"}
RingCallers == {"c1", "c2"}

\* Config: the replicas of a node when it is added, and their limits.
DefaultReplicas == 2
MinReplicas == 1
MaxReplicas == 3

\* Config.LoadBalanceThreshold, 0.25, as a fraction.
ThresholdNum == 1
ThresholdDen == 4

\* checkAndRebalance does nothing below this many requests.
MinRequests == 1000

\* The length of a run of Gets of one key that one caller makes in a row.
BurstLen == 500

\* The callers make at most MaxRingCalls calls.
MaxRingCalls == 5

\* The zero values a map read gives for a missing entry, and the mark of a
\* missing nodeCounts entry.
NoNode == ""
NoCount == -1

NoRingGet == [key |-> "", node |-> "", count |-> 0]

\* fmt.Sprintf("%s-%d", node, i).
VNode(node, i) == node \o "-" \o <<"0", "1", "2">>[i + 1]

\* Config.HashFunc, crc32.ChecksumIEEE, on the strings hashed here.  The ring
\* only compares hashes, so each string has the rank of its checksum:
\* key1 < n2-2 < n1-2 < n2-1 < n1-1 < key2 < n1-0 < n2-0 < k0.
HashFunc ==
  ("key1" :> 0) @@ ("n2-2" :> 1) @@ ("n1-2" :> 2) @@ ("n2-1" :> 3) @@ ("n1-1" :> 4)
  @@ ("key2" :> 5) @@ ("n1-0" :> 6) @@ ("n2-0" :> 7) @@ ("k0" :> 8)

Positions == {HashFunc[s] : s \in DOMAIN HashFunc}

\* The slice is in ascending order.
Sorted(q) == \A i \in 1..(Len(q) - 1) : q[i] <= q[i + 1]

\* sort.Ints.
RECURSIVE SortInts(_)
SortInts(q) ==
  IF q = <<>> THEN <<>>
  ELSE LET i == CHOOSE i \in 1..Len(q) : \A j \in 1..Len(q) : q[i] <= q[j]
       IN <<q[i]>> \o SortInts(SubSeq(q, 1, i - 1) \o SubSeq(q, i + 1, Len(q)))

\* sort.Search(n, f) with f(i) = keys[i] >= hash: the binary search, on
\* indices from 0.
RECURSIVE Search(_, _, _, _)
Search(q, hash, i, j) ==
  IF i >= j THEN i
  ELSE LET h == (i + j) \div 2
       IN IF ~(q[h + 1] >= hash) THEN Search(q, hash, h + 1, j)
          ELSE Search(q, hash, i, h)

\* The map as one record, for the operators below.
RingState ==
  [keys |-> keys, hashMap |-> hashMap, nodeReplicas |-> nodeReplicas,
   nodeCounts |-> nodeCounts]

\* A variant of the lookup that passes over a node that has served requests
\* when another position follows.
PickNodeIdle(key) ==
  LET hash == HashFunc[key]
      idx == Search(keys, hash, 0, Len(keys))
      at == IF idx = Len(keys) THEN 0 ELSE idx
      node == hashMap[keys[at + 1]]
  IN IF nodeCounts[node] > 0 /\ at + 1 < Len(keys)
       THEN hashMap[keys[at + 2]] ELSE node

\* Get, the lookup: the node of the first position >= hash(key), or of the
\* first position of the slice when there is none.
PickNode(key) ==
  LET hash == HashFunc[key]
      idx == Search(keys, hash, 0, Len(keys))
      at == IF idx = Len(keys) THEN 0 ELSE idx
  IN hashMap[keys[at + 1]]

\* addNode: the positions of node-0 .. node-(replicas-1) are appended to keys
\* and mapped to the node.
RECURSIVE AddVNodes(_, _, _, _)
AddVNodes(r, node, i, replicas) ==
  IF i >= replicas THEN r
  ELSE LET hash == HashFunc[VNode(node, i)]
       IN AddVNodes([r EXCEPT !.keys = Append(@, hash), !.hashMap[hash] = node],
                    node, i + 1, replicas)

AddNode(r, node, replicas) ==
  [AddVNodes(r, node, 0, replicas) EXCEPT !.nodeReplicas[node] = replicas]

\* Add, under the lock: every node that is not "" gets DefaultReplicas
\* positions, then keys is sorted.
RECURSIVE AddNodes(_, _)
AddNodes(r, nodes) ==
  IF nodes = <<>> THEN r
  ELSE LET node == Head(nodes)
           r1 == IF node = "" THEN r ELSE AddNode(r, node, DefaultReplicas)
       IN AddNodes(r1, Tail(nodes))

AddLocked(r, nodes) == [AddNodes(r, nodes) EXCEPT !.keys = SortInts(@)]

\* The slice without the first occurrence of hash.
RemoveFirst(q, hash) ==
  IF \E j \in 1..Len(q) : q[j] = hash
    THEN LET j == CHOOSE j \in 1..Len(q) :
                    q[j] = hash /\ \A l \in 1..(j - 1) : q[l] # hash
         IN SubSeq(q, 1, j - 1) \o SubSeq(q, j + 1, Len(q))
    ELSE q

\* Remove, under the lock, of a node with replicas: for each of its virtual
\* nodes the hashMap entry is deleted and one occurrence of the position is
\* taken out of keys; then the node's replica and request records go.
RECURSIVE RemoveVNodes(_, _, _, _)
RemoveVNodes(r, node, i, replicas) ==
  IF i >= replicas THEN r
  ELSE LET hash == HashFunc[VNode(node, i)]
       IN RemoveVNodes([r EXCEPT !.hashMap[hash] = NoNode,
                                 !.keys = RemoveFirst(@, hash)],
                       node, i + 1, replicas)

RemoveLocked(r, node) ==
  [RemoveVNodes(r, node, 0, r.nodeReplicas[node])
     EXCEPT !.nodeReplicas[node] = 0, !.nodeCounts[node] = NoCount]

\* len(m.nodeReplicas) and the nodes with a nodeCounts entry.
NumNodes == Cardinality({n \in RingNodes : nodeReplicas[n] > 0})
CountedNodes == {n \in DOMAIN nodeCounts : nodeCounts[n] # NoCount}

Abs(x) == IF x < 0 THEN -x ELSE x

\* checkAndRebalance: with at least MinRequests requests, some counted node
\* is further from the average load than the threshold allows, that is
\* |count - avgLoad| / avgLoad > LoadBalanceThreshold with avgLoad =
\* totalRequests / len(nodeReplicas).  With no node the average is +Inf and
\* no comparison holds.
NeedRebalance ==
  /\ totalRequests >= MinRequests
  /\ NumNodes > 0
  /\ \E n \in CountedNodes :
        Abs(nodeCounts[n] * NumNodes - totalRequests) * ThresholdDen
          > ThresholdNum * totalRequests

Clamp(x) == IF x < MinReplicas THEN MinReplicas
            ELSE IF x > MaxReplicas THEN MaxReplicas ELSE x

\* rebalanceNodes: the replicas a counted node should have.  loadRatio is
\* count * len(nodeReplicas) / totalRequests, 0 when there is no node; the
\* products are truncated as int() does.
NewReplicas(node) ==
  LET cur == nodeReplicas[node]
      cn == nodeCounts[node] * NumNodes
  IN Clamp(IF NumNodes = 0 \/ totalRequests = 0 THEN 2 * cur
           ELSE IF cn > totalRequests THEN (cur * totalRequests) \div cn
           ELSE (cur * (2 * totalRequests - cn)) \div totalRequests)

\* The counted nodes whose replicas rebalanceNodes would change.
Changing == {n \in CountedNodes : NewReplicas(n) # nodeReplicas[n]}

\* ---- the ring's steps ----

\* What ringMemo holds for a key: the node the last Get of the key returned
\* and the number of Gets of the key, since the ring last changed.
NoMemo == [node |-> "?", n |-> 0]

Memo(key, node, n) == [ringMemo EXCEPT ![key] = [node |-> node, n |-> @.n + n]]

\* What ringLast holds: the step, the node or key it was given, the node a Get
\* returned and whether the call returned an error.
RingOp(op, arg, node, err) == [op |-> op, arg |-> arg, node |-> node, err |-> err]

ClearMemo == [k \in RingKeys |-> NoMemo]

\* New.
RingInit ==
  /\ keys = <<>>
  /\ hashMap = [h \in Positions |-> NoNode]
  /\ nodeReplicas = [n \in RingNodes \cup {NoNode} |-> 0]
  /\ nodeCounts = [n \in RingNodes \cup {NoNode} |-> NoCount]
  /\ totalRequests = 0
  /\ mu = [w |-> "none", r |-> {}]
  /\ ringGet = [c \in RingCallers |-> NoRingGet]
  /\ balPc = "idle"
  /\ ringClosed = FALSE
  /\ ringCalls = 0
  /\ ringMemo = ClearMemo
  /\ ringLast = RingOp("none", "", "", FALSE)

\* m.mu.Lock() and m.mu.RLock() return: no writer, and for Lock no reader; a
\* reader also waits while a writer is waiting for the lock.
CanLock == mu.w = "none" /\ mu.r = {}
CanRLock == mu.w = "none" /\ balPc # "lock"

MayCall == ~ringClosed /\ ringCalls < MaxRingCalls

RingCommit(r) ==
  /\ keys' = r.keys
  /\ hashMap' = r.hashMap
  /\ nodeReplicas' = r.nodeReplicas
  /\ nodeCounts' = r.nodeCounts

\* Add(nodes...).
Add(nodes) ==
  /\ MayCall
  /\ ringCalls' = ringCalls + 1
  /\ IF nodes = <<>>
       THEN /\ ringLast' = RingOp("Add", "", "", TRUE)
            /\ UNCHANGED <<keys, hashMap, nodeReplicas, nodeCounts, ringMemo>>
       ELSE /\ CanLock
            /\ RingCommit(AddLocked(RingState, nodes))
            /\ ringMemo' = ClearMemo
            /\ ringLast' = RingOp("Add", Head(nodes), "", FALSE)
  /\ UNCHANGED <<totalRequests, mu, ringGet, balPc, ringClosed>>
  /\ RingFrame

\* Remove(node), called by a caller.
Remove(node) ==
  /\ MayCall
  /\ ringCalls' = ringCalls + 1
  /\ IF node = ""
       THEN /\ ringLast' = RingOp("Remove", node, "", TRUE)
            /\ UNCHANGED <<keys, hashMap, nodeReplicas, nodeCounts, ringMemo>>
       ELSE /\ CanLock
            /\ IF nodeReplicas[node] = 0
                 THEN /\ ringLast' = RingOp("Remove", node, "", TRUE)
                      /\ UNCHANGED <<keys, hashMap, nodeReplicas, nodeCounts, ringMemo>>
                 ELSE /\ RingCommit(RemoveLocked(RingState, node))
                      /\ ringMemo' = ClearMemo
                      /\ ringLast' = RingOp("Remove", node, "", FALSE)
  /\ UNCHANGED <<totalRequests, mu, ringGet, balPc, ringClosed>>
  /\ RingFrame

\* Get(key) up to the read of the node's counter: "" at once for the key ""
\* and, under the read lock, for a ring without positions.
GetLookup(c, key) ==
  /\ MayCall
  /\ ringGet[c] = NoRingGet
  /\ ringCalls' = ringCalls + 1
  /\ IF key = ""
       THEN /\ ringLast' = RingOp("Get", key, "", FALSE)
            /\ UNCHANGED <<mu, ringGet, ringMemo>>
       ELSE /\ CanRLock
            /\ IF Len(keys) = 0
                 THEN /\ ringLast' = RingOp("Get", key, "", FALSE)
                      /\ ringMemo' = Memo(key, "", 1)
                      /\ UNCHANGED <<mu, ringGet>>
                 ELSE LET node == PickNode(key)
                          count == IF nodeCounts[node] = NoCount THEN 0
                                   ELSE nodeCounts[node]
                      IN /\ ringGet' = [ringGet EXCEPT ![c] =
                                          [key |-> key, node |-> node, count |-> count]]
                         /\ mu' = [mu EXCEPT !.r = @ \cup {c}]
                         /\ ringLast' = RingOp("lookup", key, node, FALSE)
                         /\ UNCHANGED ringMemo
  /\ UNCHANGED <<keys, hashMap, nodeReplicas, nodeCounts, totalRequests, balPc,
                 ringClosed>>
  /\ RingFrame

\* Get from the write of the node's counter to its return.
GetCount(c) ==
  /\ ringGet[c] # NoRingGet
  /\ LET g == ringGet[c]
     IN /\ nodeCounts' = [nodeCounts EXCEPT ![g.node] = g.count + 1]
        /\ ringMemo' = Memo(g.key, g.node, 1)
        /\ ringLast' = RingOp("Get", g.key, g.node, FALSE)
  /\ totalRequests' = totalRequests + 1
  /\ mu' = [mu EXCEPT !.r = @ \ {c}]
  /\ ringGet' = [ringGet EXCEPT ![c] = NoRingGet]
  /\ UNCHANGED <<keys, hashMap, nodeReplicas, balPc, ringClosed, ringCalls>>
  /\ RingFrame

\* BurstLen calls of Get(key) by one caller, one after the other, with no step
\* of another goroutine between them.
GetBurst(c, key) ==
  /\ MayCall
  /\ ringGet[c] = NoRingGet
  /\ CanRLock
  /\ Len(keys) > 0
  /\ ringCalls' = ringCalls + 1
  /\ LET node == PickNode(key)
         count == IF nodeCounts[node] = NoCount THEN 0 ELSE nodeCounts[node]
     IN /\ nodeCounts' = [nodeCounts EXCEPT ![node] = count + BurstLen]
        /\ ringMemo' = Memo(key, node, BurstLen)
        /\ ringLast' = RingOp("Get", key, node, FALSE)
  /\ totalRequests' = totalRequests + BurstLen
  /\ UNCHANGED <<keys, hashMap, nodeReplicas, mu, ringGet, balPc, ringClosed>>
  /\ RingFrame

\* A tick of the balancer's ticker: checkAndRebalance up to its call of
\* rebalanceNodes.
CheckAndRebalance ==
  /\ balPc = "idle"
  /\ balPc' = IF NeedRebalance THEN "lock" ELSE "idle"
  /\ ringLast' = RingOp("checkAndRebalance", "", "", FALSE)
  /\ UNCHANGED <<keys, hashMap, nodeReplicas, nodeCounts, totalRequests, mu, ringGet,
                 ringClosed, ringCalls, ringMemo>>
  /\ RingFrame

\* rebalanceNodes from the moment it has the write lock.  For the first
\* counted node whose replicas change it calls Remove, which returns an error
\* for the node "" and otherwise calls m.mu.Lock() with the lock held by this
\* goroutine: it never returns.  With no such node the counters are reset,
\* keys is sorted and the lock is released.
RebalanceNodes ==
  /\ balPc = "lock"
  /\ CanLock
  /\ IF Changing \ {""} # {}
       THEN /\ mu' = [mu EXCEPT !.w = "balancer"]
            /\ balPc' = "blocked"
            /\ ringLast' = RingOp("rebalanceNodes", "", "", TRUE)
            /\ UNCHANGED <<keys, nodeCounts, totalRequests, ringMemo>>
       ELSE /\ keys' = SortInts(keys)
            /\ nodeCounts' = [n \in DOMAIN nodeCounts |->
                                IF nodeCounts[n] = NoCount THEN NoCount ELSE 0]
            /\ totalRequests' = 0
            /\ ringMemo' = ClearMemo
            /\ balPc' = "idle"
            /\ ringLast' = RingOp("rebalanceNodes", "", "", FALSE)
            /\ UNCHANGED mu
  /\ UNCHANGED <<hashMap, nodeReplicas, ringGet, ringClosed, ringCalls>>
  /\ RingFrame

\* The owner of the ring shuts down: no call is made after that.  Map has no
\* method that takes part in it.
OwnerClose ==
  /\ ~ringClosed
  /\ ringClosed' = TRUE
  /\ ringLast' = RingOp("Close", "", "", FALSE)
  /\ UNCHANGED <<keys, hashMap, nodeReplicas, nodeCounts, totalRequests, mu, ringGet,
                 balPc, ringCalls, ringMemo>>
  /\ RingFrame

AddArgs == {<<>>, <<"n1">>, <<"n2">>, <<"n1", "n2">>}

RingNext ==
  \/ \E nodes \in AddArgs : Add(nodes)
  \/ \E node \in RingNodes \cup {""} : Remove(node)
  \/ \E c \in RingCallers : \E key \in RingKeys \cup {""} : GetLookup(c, key)
  \/ \E c \in RingCallers : GetCount(c)
  \/ \E c \in RingCallers : \E key \in RingKeys : GetBurst(c, key)
  \/ CheckAndRebalance
  \/ RebalanceNodes
  \/ OwnerClose

\* ---- what the ring did ----

\* C24, step by step: a Get that returns gives the node that the Get of the
\* same key before it gave, when no Add, Remove or rebalance has changed the
\* ring since.
C24_Step ==
  (ringLast'.op = "Get" /\ ringLast'.arg \in RingKeys) =>
    LET before == ringMemo[ringLast'.arg]
    IN before.n > 0 => ringLast'.node = before.node

\* C24: two Get calls with the same key and no Add, Remove or rebalance
\* between them return the same node, however many other Get calls happen in
\* between: the request counters do not influence the result.
C24_Determinism == [][C24_Step]_vars

\* Since the ring last changed a key has been looked up more than BurstLen
\* times and another key, which goes to the other node, has been looked up
\* too: the counters of both nodes have moved between Gets of the key.
C24_Witness ==
  /\ ringLast.op = "Get"
  /\ ringLast.arg \in RingKeys
  /\ ringMemo[ringLast.arg].n > BurstLen
  /\ \E k \in RingKeys \ {ringLast.arg} :
        /\ ringMemo[k].n > 0
        /\ ringMemo[k].node \in RingNodes \ {ringLast.node}
  /\ ringLast.node \in RingNodes

\* The positions in keys, and the position that serves a hash: the smallest
\* one >= hash, or the smallest of all when there is none.
KeySet == {keys[i] : i \in 1..Len(keys)}

MinOf(S) == CHOOSE x \in S : \A y \in S : x <= y

Successor(hash) ==
  LET geq == {p \in KeySet : p >= hash}
  IN IF geq # {} THEN MinOf(geq) ELSE MinOf(KeySet)

\* C25, the slice: keys is sorted whenever no writer holds the lock.
C25_Sorted == mu.w = "none" => Sorted(keys)

\* C25, step by step: a Get of a ring with positions returns the node that
\* hashMap gives for the position that serves hash(key).
C25_Lookup ==
  (ringLast'.op = "Get" /\ ringLast'.arg \in RingKeys /\ Len(keys) > 0) =>
    ringLast'.node = hashMap[Successor(HashFunc[ringLast'.arg])]

\* C25, step by step: on a ring that holds a node, that node is a real node,
\* one the ring holds.
C25_RealNode ==
  (ringLast'.op = "Get" /\ ringLast'.arg \in RingKeys /\ NumNodes > 0) =>
    /\ ringLast'.node \in RingNodes
    /\ nodeReplicas[ringLast'.node] > 0

\* C25: on a non-empty ring, Get(key) returns the real node mapped to the
\* smallest virtual-node hash that is >= hash(key), or to the smallest hash
\* on the ring when none is >= hash(key); keys is sorted whenever a Get can
\* observe it.
C25_Routing == [](C25_Sorted) /\ [][C25_Lookup /\ C25_RealNode]_vars

\* C26: the rebalance never tries to acquire the ring's write lock while it
\* holds it; a rebalance that changes some node's replica count completes and
\* releases the lock, so later Get, Add and Remove calls are not blocked for
\* ever.
C26_RebalanceReleases ==
  ~(mu.w = "balancer" /\ balPc = "blocked")

\* C27: every background task stops once its owner is shut down: after the
\* owner of the ring has shut down, the balancer goroutine runs no further
\* rebalance.
C27_BalancerStops ==
  ringClosed => ringLast.op # "rebalanceNodes"

\* C36: after any sequence of Add and Remove calls (including adding a node
\* name that is already on the ring), every position in keys has a hashMap
\* entry naming a node present in nodeReplicas, and len(keys) equals the sum
\* of the replica counts.
C36_Membership ==
  /\ \A i \in 1..Len(keys) :
        /\ hashMap[keys[i]] # NoNode
        /\ nodeReplicas[hashMap[keys[i]]] > 0
  /\ Len(keys) = SumOver(nodeReplicas, RingNodes)

\* C37: each ring Get that returns a node increments totalRequests and that
\* node's request counter by exactly one, also when Gets run concurrently:
\* no increment is lost.
C37_Step ==
  (ringLast'.op = "Get" /\ totalRequests' = totalRequests + 1) =>
     LET node == ringLast'.node
     IN nodeCounts'[node] =
          (IF nodeCounts[node] = NoCount THEN 0 ELSE nodeCounts[node]) + 1

C37_Counting == [][C37_Step]_vars

(***************************************************************************)
(* Part 6: the registry of groups (group.go)                               *)
(*                                                                         *)
(* The package keeps one map from name to *Group under groupsMu.  NewGroup *)
(* binds a name, GetGroup reads a binding, Group.Close removes the binding *)
(* of the group's name, DestroyGroup and DestroyAllGroups close and unbind *)
(* under the lock.  Goroutines call these in any order; a call that takes  *)
(* groupsMu waits while another goroutine holds it.  sync.RWMutex is not   *)
(* reentrant: a goroutine that asks for the lock it holds waits for ever.  *)
(***************************************************************************)

RegNames == {"g1", "g2"}
RegProcs == {"p1", "p2"}

\* Number of NewGroup calls followed.
MaxGroups == 3

GroupIds == 1..MaxGroups

NoGroup == 0      \* a nil *Group, or a name absent from groups
NoHolder == ""    \* groupsMu is free

\* The call a goroutine is in (pc: idle, unregister, locked or blocked), and
\* what its last call returned: ret for the boolean or error, got for the
\* group of NewGroup and GetGroup.
RegCall(pc, op, name, g, ret, got) ==
  [pc |-> pc, op |-> op, name |-> name, g |-> g, ret |-> ret, got |-> got]

RegReturn(op, name, g, ret, got) == RegCall("idle", op, name, g, ret, got)

Created == {g \in GroupIds : regName[g] # ""}

RegInit ==
  /\ regGroups = [nm \in RegNames |-> NoGroup]
  /\ regName = [g \in GroupIds |-> ""]
  /\ regClosed = [g \in GroupIds |-> 0]
  /\ regCacheClosed = [g \in GroupIds |-> FALSE]
  /\ regMu = NoHolder
  /\ regPc = [p \in RegProcs |-> RegReturn("", "", NoGroup, "?", NoGroup)]

\* delete(groups, name).
Unbind(gs, name) == [gs EXCEPT ![name] = NoGroup]

\* NewGroup, lines 91-123: the group is built, and bound to its name under
\* groupsMu whether or not the name is bound already.
NewGroup(p, name) ==
  LET g == Cardinality(Created) + 1
  IN /\ regPc[p].pc = "idle"
     /\ g <= MaxGroups
     /\ regMu = NoHolder
     /\ regName' = [regName EXCEPT ![g] = name]
     /\ regGroups' = [regGroups EXCEPT ![name] = g]
     /\ regPc' = [regPc EXCEPT ![p] = RegReturn("NewGroup", name, g, "", g)]
     /\ UNCHANGED <<regClosed, regCacheClosed, regMu>>
     /\ RegFrame

\* GetGroup, lines 127-131.
GetGroup(p, name) ==
  /\ regPc[p].pc = "idle"
  /\ regMu = NoHolder
  /\ regPc' = [regPc EXCEPT ![p] = RegReturn("GetGroup", name, NoGroup, "", regGroups[name])]
  /\ UNCHANGED <<regGroups, regName, regClosed, regCacheClosed, regMu>>
  /\ RegFrame

\* Group.Close, lines 258-267: the compare-and-swap on g.closed; the winner
\* closes the cache and goes on to the registry, a loser returns nil.
RegClose(p, g) ==
  /\ regPc[p].pc = "idle"
  /\ g \in Created
  /\ IF regClosed[g] = 0
       THEN /\ regClosed' = [regClosed EXCEPT ![g] = 1]
            /\ regCacheClosed' = [regCacheClosed EXCEPT ![g] = TRUE]
            /\ regPc' = [regPc EXCEPT ![p] = RegCall("unregister", "Close", regName[g], g, "?", NoGroup)]
       ELSE /\ regPc' = [regPc EXCEPT ![p] = RegReturn("Close", regName[g], g, "nil", NoGroup)]
            /\ UNCHANGED <<regClosed, regCacheClosed>>
  /\ UNCHANGED <<regGroups, regName, regMu>>
  /\ RegFrame

\* Group.Close, lines 270-275: under groupsMu, delete(groups, g.name).
RegCloseUnregister(p) ==
  /\ regPc[p].pc = "unregister"
  /\ regMu = NoHolder
  /\ regGroups' = Unbind(regGroups, regPc[p].name)
  /\ regPc' = [regPc EXCEPT ![p] = RegReturn("Close", regPc[p].name, regPc[p].g, "nil", NoGroup)]
  /\ UNCHANGED <<regName, regClosed, regCacheClosed, regMu>>
  /\ RegFrame

\* DestroyGroup, lines 410-412, and DestroyAllGroups, lines 425-427:
\* groupsMu.Lock().
DestroyLock(p, op, name) ==
  /\ regPc[p].pc = "idle"
  /\ regMu = NoHolder
  /\ regMu' = p
  /\ regPc' = [regPc EXCEPT ![p] = RegCall("locked", op, name, NoGroup, "?", NoGroup)]
  /\ UNCHANGED <<regGroups, regName, regClosed, regCacheClosed>>
  /\ RegFrame

\* g.Close() called by a goroutine that holds groupsMu, on an open group:
\* Close wins the compare-and-swap, closes the cache and asks for groupsMu
\* at line 270, which its own goroutine holds.
CloseLocked(p, g) ==
  /\ regClosed' = [regClosed EXCEPT ![g] = 1]
  /\ regCacheClosed' = [regCacheClosed EXCEPT ![g] = TRUE]
  /\ regPc' = [regPc EXCEPT ![p] = [@ EXCEPT !.pc = "blocked", !.g = g]]
  /\ UNCHANGED <<regGroups, regMu>>

\* DestroyGroup, lines 414-421: a name that is not bound returns false; a
\* bound group is closed, unbound, and true is returned with the lock
\* released.  Close returns at once for a group that is closed already.
DestroyGroup(p) ==
  LET name == regPc[p].name
      g == regGroups[name]
  IN /\ regPc[p].pc = "locked"
     /\ regPc[p].op = "DestroyGroup"
     /\ IF g = NoGroup
          THEN /\ regPc' = [regPc EXCEPT ![p] = RegReturn("DestroyGroup", name, NoGroup, "false", NoGroup)]
               /\ regMu' = NoHolder
               /\ UNCHANGED <<regGroups, regClosed, regCacheClosed>>
          ELSE IF regClosed[g] = 1
          THEN /\ regGroups' = Unbind(regGroups, name)
               /\ regPc' = [regPc EXCEPT ![p] = RegReturn("DestroyGroup", name, g, "true", NoGroup)]
               /\ regMu' = NoHolder
               /\ UNCHANGED <<regClosed, regCacheClosed>>
          ELSE CloseLocked(p, g)
     /\ UNCHANGED regName
     /\ RegFrame

\* DestroyAllGroups, lines 429-433: one round of the loop over groups, in the
\* order the map yields the names.
DestroyAllGroups(p, name) ==
  LET g == regGroups[name]
  IN /\ regPc[p].pc = "locked"
     /\ regPc[p].op = "DestroyAllGroups"
     /\ g # NoGroup
     /\ IF regClosed[g] = 1
          THEN /\ regGroups' = Unbind(regGroups, name)
               /\ UNCHANGED <<regClosed, regCacheClosed, regPc, regMu>>
          ELSE CloseLocked(p, g)
     /\ UNCHANGED regName
     /\ RegFrame

\* DestroyAllGroups: the loop has ended, the deferred Unlock runs.
DestroyAllReturn(p) ==
  /\ regPc[p].pc = "locked"
  /\ regPc[p].op = "DestroyAllGroups"
  /\ \A nm \in RegNames : regGroups[nm] = NoGroup
  /\ regMu' = NoHolder
  /\ regPc' = [regPc EXCEPT ![p] = RegReturn("DestroyAllGroups", "", NoGroup, "", NoGroup)]
  /\ UNCHANGED <<regGroups, regName, regClosed, regCacheClosed>>
  /\ RegFrame

RegNext ==
  \/ \E p \in RegProcs, nm \in RegNames : NewGroup(p, nm)
  \/ \E p \in RegProcs, nm \in RegNames : GetGroup(p, nm)
  \/ \E p \in RegProcs, g \in GroupIds : RegClose(p, g)
  \/ \E p \in RegProcs : RegCloseUnregister(p)
  \/ \E p \in RegProcs, nm \in RegNames : DestroyLock(p, "DestroyGroup", nm)
  \/ \E p \in RegProcs : DestroyLock(p, "DestroyAllGroups", "")
  \/ \E p \in RegProcs : DestroyGroup(p)
  \/ \E p \in RegProcs, nm \in RegNames : DestroyAllGroups(p, nm)
  \/ \E p \in RegProcs : DestroyAllReturn(p)

\* C34: DestroyGroup(name) on a registered open group returns true, and
\* DestroyAllGroups with at least one open group returns, without
\* self-deadlocking on the registry lock: no goroutine waits for groupsMu
\* while holding it.
C34_TeardownTerminates ==
  \A p \in RegProcs : ~(regMu = p /\ regPc[p].pc = "blocked")

\* C35: after a second group is created under an already registered name,
\* GetGroup(name) returns the second group, and closing the first (replaced)
\* group removes only its own binding: an open group that is the last one
\* created under its name is the group its name is bound to.
LastCreated(g) == \A h \in Created : regName[h] = regName[g] => h <= g

C35_RegistryBinding ==
  \A g \in Created :
     (regClosed[g] = 0 /\ LastCreated(g)) => regGroups[regName[g]] = g

(***************************************************************************)
(* Specifications                                                          *)
(***************************************************************************)

Init ==
  SFInit /\ LRUInit /\ LRU2Init /\ GroupInit /\ RingInit /\ RegInit /\ TableInit

SpecSF == Init /\ [][SFNext]_vars
SpecSFLive == Init /\ [][SFNext]_vars /\ SFFairness

SpecLRU == Init /\ [][LRUNext]_vars
SpecLRUOps == Init /\ [][LRUOpsNext]_vars

SpecLRULocks == Init /\ [][LRULocksNext]_vars

SpecLRU2 == Init /\ [][LRU2Next]_vars

SpecTable == Init /\ [][TableNext]_vars

SpecGroup == Init /\ [][GroupNext]_vars

SpecRing == Init /\ [][RingNext]_vars

SpecRegistry == Init /\ [][RegNext]_vars

====
